---- MODULE Spec2Model ----
(***************************************************************************)
(* Relay-edge agent: the control client (src/starbeam/client.cpp), the UDP *)
(* channel manager (udp.cpp, second half of client.cpp) and the protocol   *)
(* helpers they use (protocol.cpp).                                         *)
(*                                                                         *)
(* Threads: the I/O task (Client::run_io_context), the application thread  *)
(* that calls start()/stop() and the lifecycle glue, and one further       *)
(* application thread that calls send_session_end().  The relay is the     *)
(* environment: it accepts or refuses connections, sends frames and closes *)
(* the socket.                                                             *)
(***************************************************************************)
EXTENDS Integers, Sequences, FiniteSets, TLC

(* ------------------------------ bounds -------------------------------- *)
\* frames the relay sends in one run
MaxFrames == 3
\* how many times the lifecycle glue calls starbeam::initialize()
MaxCalls == 3

(* ------------------------- program constants -------------------------- *)
\* config::sunshine.port, the streaming host's base port
BasePort == 47989
\* reconnect_interval_seconds_
reconnect_interval_seconds_ == 5
\* width of the uint16_t ports
PortModulus == 65536
\* std::vector<uint8_t> buffer(65535) in run_relay
BufferSize == 65535

ConnectionState == {"Disconnected", "Connecting", "Connected", "Registered", "Error"}
UdpChannelType == {"Video", "Audio", "Control"}

(* ------------------------- protocol helpers --------------------------- *)
ZeroPorts == [http |-> 0, https |-> 0, rtsp |-> 0, video |-> 0, audio |-> 0, control |-> 0]

\* a frame on the control channel, as the fields the handlers read
\* form: "json" for a JSON object, "text" for a frame that is not JSON, "untyped"
\* for a JSON object without a type field; complete: every field the handler of
\* the type reads is there
Frame(t, h, p, sid, ch, ts) ==
    [type |-> t, host_id |-> h, ports |-> p, session_id |-> sid, channel |-> ch, ts |-> ts,
     id |-> 0, form |-> "json", complete |-> TRUE]
\* an http_request or rtsp_request with its id
RequestFrame(t, id, complete) ==
    [Frame(t, "", ZeroPorts, 0, "", 0) EXCEPT !.id = id, !.complete = complete]
NoFrame == Frame("", "", ZeroPorts, 0, "", 0)
\* the read completing with an error: the relay closed the socket
CloseMark == Frame("<closed>", "", ZeroPorts, 0, "", 0)

KnownTypes ==
    {"register", "register_ack", "register_error", "http_request", "http_response",
     "rtsp_request", "rtsp_response", "udp_channel_setup", "udp_channel_ack",
     "udp_channel_close", "session_start", "session_end", "ping", "pong", "error"}

\* read_json or get("type") throwing gives Unknown
parse_message_type(f) ==
    IF f.form # "json" THEN "unknown"
    ELSE IF f.type \in KnownTypes THEN f.type ELSE "unknown"

channel_type_string(t) ==
    CASE t = "Video" -> "video"
      [] t = "Audio" -> "audio"
      [] t = "Control" -> "control"
      [] OTHER -> "unknown"

channel_type_from_string(str) ==
    IF str = "video" THEN "Video"
    ELSE IF str = "audio" THEN "Audio"
    ELSE IF str = "control" THEN "Control"
    ELSE "Video"

\* a from_json that reads the video port from the audio field
RegisterAckMessage_from_json_swapped(f) ==
    [host_id |-> f.host_id, ports |-> [f.ports EXCEPT !.video = f.ports.audio]]

RegisterAckMessage_from_json(f) == [host_id |-> f.host_id, ports |-> f.ports]

UdpChannelSetupMessage_from_json(f) ==
    [session_id |-> f.session_id, channel |-> channel_type_from_string(f.channel)]

\* an outgoing message, as the fields to_json writes
Msg(t, sid, ch, rp, lp, ts) ==
    [type |-> t, session_id |-> sid, channel |-> ch, relay_port |-> rp,
     local_port |-> lp, ts |-> ts, id |-> 0, status |-> 0]
NoMsg == Msg("", 0, "", 0, 0, 0)

RegisterMessage_to_json == Msg("register", 0, "", 0, 0, 0)
UdpChannelAckMessage_to_json(ack) ==
    Msg("udp_channel_ack", ack.session_id, channel_type_string(ack.channel),
        ack.relay_port, ack.local_port, 0)
PingMessage_from_json(f) == [ts |-> f.ts]
HttpRequestMessage_from_json(f) == [id |-> f.id]
RtspRequestMessage_from_json(f) == [id |-> f.id]
HttpResponseMessage_to_json(resp) ==
    [Msg("http_response", 0, "", 0, 0, 0) EXCEPT !.id = resp.id, !.status = resp.status]
RtspResponseMessage_to_json(resp) ==
    [Msg("rtsp_response", 0, "", 0, 0, 0) EXCEPT !.id = resp.id, !.status = resp.status]
\* a pong that carries the time of sending (here 0) instead of the ping's ts
PongMessage_to_json_own(ts) == Msg("pong", 0, "", 0, 0, 0)

PongMessage_to_json(ts) == Msg("pong", 0, "", 0, 0, ts)
SessionEndMessage_to_json(sid) == Msg("session_end", sid, "", 0, 0, 0)

get_sunshine_port(type) ==
    CASE type = "Video" -> (BasePort + 9) % PortModulus
      [] type = "Audio" -> (BasePort + 10) % PortModulus
      [] type = "Control" -> (BasePort + 8) % PortModulus
      [] OTHER -> 0

(* ------------------------------- state -------------------------------- *)
VARIABLES
    \* Client
    running_, state_, assigned_host_id_, assigned_ports_,
    io_context_,        \* "null", "ready" or "stopped"
    ws_,                \* "null", "closed" (no open connection) or "open"
    handlers,           \* which handler slots hold a function
    handler_mutex_,     \* "free" or the thread that holds it
    url_ok,             \* whether server_url_ matches the ws/wss pattern
    \* the I/O task
    io_pc, io_out, read_pending, sleep_i,
    \* the application threads
    main_pc, snd_pc,
    io_launched,        \* how many I/O tasks start() has launched
    \* the relay and the socket towards the client
    rx, frames_left,
    \* ChannelManager
    mgr_running, mgr_ports, mgr_io, channels_, sockets, forwarders,
    \* what an outside observer has seen
    obs,                \* the last (old, new) pair given to the state observer
    last_reg_ports,     \* the ports of the register_ack that last moved the
                        \* client to Registered
    last_setup,         \* how the channel setup being answered ended
    answered,           \* the (type, id) of the requests answered in this connection
    \* the UDP forwarders
    relay_addr,         \* the address relay_host_ resolves to
    udp_in,             \* the datagram a forwarder has received and not yet sent on
    udp_out,            \* the last datagram a forwarder has sent
    crashed,            \* the process has been ended by a fault
    \* ChannelManager, thread by thread
    mutex_,             \* "free" or the thread that holds ChannelManager::mutex_
    fw_pc,              \* where the forwarder thread of each channel type is
    close_wakes,        \* whether closing a socket ends a receive_from blocked on it
    \* the loopback HTTP forwarder
    fwd_req,            \* the http_request handed to tunnel::handle_http_request
    fwd_local,          \* what the local server does with the connection
    fwd_sent,           \* the request written to the local server
    fwd_resp,           \* the http_response returned for fwd_req
    \* the global functions
    cfg,                \* config::starbeam: enabled, server_url, auth_key
    g_client,           \* whether g_client holds a client
    init_calls,         \* how many calls of starbeam::initialize() have returned
    init_ret,           \* what the last starbeam::initialize() returned
    tunnel_ret,         \* what the last tunnel::initialize() returned
    \* calls in progress on the handler slots
    set_state_call,     \* old_state and new_state of the set_state past its exchange
    setter              \* per thread, the slot and handler of the setter it is in

clientVars == <<running_, state_, assigned_host_id_, assigned_ports_, io_context_, ws_,
                handlers, handler_mutex_, url_ok>>
ioVars == <<io_pc, io_out, read_pending, sleep_i>>
appVars == <<main_pc, snd_pc, io_launched>>
relayVars == <<rx, frames_left>>
mgrVars == <<mgr_running, mgr_ports, mgr_io, channels_, sockets, forwarders>>
seenVars == <<obs, last_reg_ports, last_setup, answered, crashed>>
udpVars == <<relay_addr, udp_in, udp_out>>
threadVars == <<mutex_, fw_pc, close_wakes>>
fwdVars == <<fwd_req, fwd_local, fwd_sent, fwd_resp>>
globalVars == <<cfg, g_client, init_calls, init_ret, tunnel_ret>>
lockVars == <<set_state_call, setter>>
\* what the client's own threads leave alone
sideVars == <<udpVars, threadVars, fwdVars, globalVars, lockVars>>
vars == <<clientVars, ioVars, appVars, relayVars, mgrVars, seenVars, sideVars>>

(* ------------------------------ inputs -------------------------------- *)
Ports1 == [http |-> 10, https |-> 11, rtsp |-> 12, video |-> 13, audio |-> 14, control |-> 15]
Ports2 == [http |-> 20, https |-> 21, rtsp |-> 22, video |-> 23, audio |-> 24, control |-> 25]
PortsNoHttp == [http |-> 0, https |-> 31, rtsp |-> 32, video |-> 33, audio |-> 34, control |-> 35]

RegisterAckFrames ==
    { Frame("register_ack", "h1", Ports1, 0, "", 0),
      Frame("register_ack", "h2", Ports2, 0, "", 0),
      Frame("register_ack", "", PortsNoHttp, 0, "", 0) }
UdpSetupFrames ==
    { Frame("udp_channel_setup", "", ZeroPorts, sc[1], sc[2], 0) :
        sc \in { <<1, "video">>, <<2, "audio">>, <<1, "control">>, <<2, "bogus">> } }
\* http_request and rtsp_request frames; the last one lacks client_addr
RequestFrames ==
    { RequestFrame("http_request", 7, TRUE), RequestFrame("http_request", 8, TRUE),
      RequestFrame("rtsp_request", 7, TRUE), RequestFrame("http_request", 9, FALSE) }
\* frames parse_message_type reports as Unknown
UnknownFrames ==
    { Frame("never_heard_of_it", "", ZeroPorts, 0, "", 0),
      [Frame("", "", ZeroPorts, 0, "", 0) EXCEPT !.form = "text"],
      [Frame("", "", ZeroPorts, 0, "", 0) EXCEPT !.form = "untyped"] }
RelayFrames ==
    RegisterAckFrames \cup UdpSetupFrames \cup RequestFrames \cup UnknownFrames \cup
    { Frame("register_error", "", ZeroPorts, 0, "", 0),
      Frame("ping", "", ZeroPorts, 0, "", 42),
      Frame("error", "", ZeroPorts, 0, "", 0) }

\* what the installed request handlers can answer: the local server's status, or 500
HandlerStatus == {200, 500}

\* ports the OS may hand to a socket bound to 0.0.0.0:0
EphemeralPorts == {49152, 49153, 49154}

\* addresses: a relay on another machine, the loopback address (the streaming host,
\* and a relay run on the same machine), and some third party
RemoteAddr == "198.51.100.7"
Loopback == "127.0.0.1"
OtherAddr == "203.0.113.9"
SourceAddrs == {RemoteAddr, Loopback, OtherAddr}
RelayAddrs == {RemoteAddr, Loopback}
\* datagram payloads, as length and content; 65507 is the longest UDP payload
Payloads == { [len |-> n, data |-> d] : n \in {0, 1, 65507}, d \in {"a", "b"} }
NoDatagram == [channel |-> "", addr |-> "", port |-> 0, payload |-> [len |-> 0, data |-> ""]]

\* no set_state between its exchange and its return
NoCall == [old |-> "", new |-> ""]
\* a setter call: the slot it assigns and whether the std::function given is non-empty
SetterCalls == { [slot |-> sl, value |-> v] : sl \in {"http", "rtsp", "udp", "state"},
                                              v \in BOOLEAN }
NoSetter == [slot |-> "", value |-> FALSE]
NoSetters == [io |-> NoSetter, app |-> NoSetter]
\* the frames that are given to a handler slot
SlotFrames ==
    { RequestFrame("http_request", 7, TRUE), RequestFrame("rtsp_request", 7, TRUE),
      Frame("udp_channel_setup", "", ZeroPorts, 1, "video", 0) }

\* config::starbeam as the lifecycle glue finds it; the strings are empty or not
Configs ==
    { [enabled |-> e, server_url |-> u, auth_key |-> k] :
        e \in BOOLEAN, u \in {"", "ws://relay.example"}, k \in {"", "key"} }
GoodConfig == [enabled |-> TRUE, server_url |-> "ws://relay.example", auth_key |-> "key"]

\* ---- the loopback HTTP forwarder: requests, local servers, responses ----
\* text is a sequence of characters, so that it has a length
Text(str) ==
    CASE str = "" -> << >>
      [] str = "hi" -> <<"h", "i">>
      [] str = "Internal Server Error" -> <<"Internal Server Error">>
      [] OTHER -> <<str>>

\* header names an ingress request may carry, in the order of std::map<std::string, ...>
HeaderOrder ==
    <<"Accept", "CONNECTION", "Host", "Transfer-Encoding", "X-Forwarded-For",
      "X-Starbeam-Client", "host">>
IngressNames == { HeaderOrder[i] : i \in 1..Len(HeaderOrder) }

\* std::transform(..., ::tolower)
tolower(name) ==
    CASE name = "Accept" -> "accept"
      [] name = "CONNECTION" -> "connection"
      [] name = "Host" -> "host"
      [] name = "Transfer-Encoding" -> "transfer-encoding"
      [] name = "X-Forwarded-For" -> "x-forwarded-for"
      [] name = "X-Starbeam-Client" -> "x-starbeam-client"
      [] name = "Content-Type" -> "content-type"
      [] name = "CONTENT-TYPE" -> "content-type"
      [] name = "Content-Length" -> "content-length"
      [] OTHER -> name

\* the value the ingress request gives to a header
IngressValue(name) == <<"value of", name>>

\* HttpRequestMessage, as tunnel::handle_http_request receives it
HttpRequests ==
    { [id |-> 7, method |-> m, path |-> "/x", query |-> q, headers |-> h, body |-> b,
       client_addr |-> "1.2.3.4", is_https |-> s] :
        m \in {"GET", "POST"}, q \in {"", "a=1"}, h \in SUBSET IngressNames,
        b \in {Text(""), Text("hi")}, s \in BOOLEAN }
NoRequest == [id |-> 0, method |-> "", path |-> "", query |-> "", headers |-> {},
              body |-> << >>, client_addr |-> "", is_https |-> FALSE]

\* What the local side does.  "unregistered": no forwarder is set in the tunnel.
\* "refused": nothing listens on the port, connect throws.  "reset": the connection
\* breaks while the request is written, write throws.  "bad_length": the response has
\* a Content-Length that is no number, stoul throws.  "closed": the server accepts the
\* connection and closes it without a byte, which the reads report in an error code
\* that is not looked at.  "garbled": the server answers with something that is no
\* HTTP status line.  "answers": a response with a status line, headers and a body.
LocalAnswers ==
    { [kind |-> "answers", status |-> st, type_name |-> tn, type |-> "text/plain",
       has_length |-> hl, body |-> b] :
        st \in {200, 404}, tn \in {"", "Content-Type", "CONTENT-TYPE"},
        hl \in BOOLEAN, b \in {Text(""), Text("hi")} }
LocalFailures ==
    { [kind |-> k, status |-> 0, type_name |-> "", type |-> "", has_length |-> FALSE,
       body |-> << >>] : k \in {"refused", "reset", "bad_length", "closed", "garbled"} }
LocalUnregistered ==
    [kind |-> "unregistered", status |-> 0, type_name |-> "", type |-> "",
     has_length |-> FALSE, body |-> << >>]
NoLocal == [kind |-> "", status |-> 0, type_name |-> "", type |-> "", has_length |-> FALSE,
            body |-> << >>]

\* the values an int that was never assigned can be read as
IndeterminateStatus == {0, 200, 500}

NothingSent == [line |-> << >>, headers |-> << >>, body |-> << >>]
NoResponse == [id |-> 0, status |-> 0, headers |-> {}, has_body |-> FALSE, body |-> << >>]

NoChannel == [present |-> FALSE, local_port |-> 0, relay_port |-> 0, sunshine_port |-> 0]

Init ==
    /\ running_ = FALSE
    /\ state_ = "Disconnected"
    /\ assigned_host_id_ = ""
    /\ assigned_ports_ = ZeroPorts
    /\ io_context_ = "null"
    /\ ws_ = "null"
    /\ handlers = [http |-> FALSE, rtsp |-> FALSE, udp |-> FALSE, state |-> FALSE]
    /\ handler_mutex_ = "free"
    /\ url_ok \in BOOLEAN
    /\ io_pc = "none"
    /\ io_out = NoMsg
    /\ read_pending = FALSE
    /\ sleep_i = 0
    /\ main_pc = "init"
    /\ snd_pc = "idle"
    /\ io_launched = 0
    /\ rx = NoFrame
    /\ frames_left = MaxFrames
    /\ mgr_running = FALSE
    /\ mgr_ports = [video |-> 0, audio |-> 0, control |-> 0]
    /\ mgr_io = FALSE
    /\ channels_ = [t \in UdpChannelType |-> NoChannel]
    /\ sockets = [t \in UdpChannelType |-> 0]
    /\ forwarders = [t \in UdpChannelType |-> 0]
    /\ obs = <<"", "">>
    /\ last_reg_ports = ZeroPorts
    /\ last_setup = "none"
    /\ answered = {}
    /\ crashed = FALSE
    /\ relay_addr = RemoteAddr
    /\ udp_in = NoDatagram
    /\ udp_out = NoDatagram
    /\ set_state_call = NoCall
    /\ setter = NoSetters
    /\ cfg = GoodConfig
    /\ g_client = TRUE
    /\ init_calls = 1
    /\ init_ret = TRUE
    /\ tunnel_ret = TRUE
    /\ fwd_req = NoRequest
    /\ fwd_local = NoLocal
    /\ fwd_sent = NothingSent
    /\ fwd_resp = NoResponse
    /\ mutex_ = "free"
    /\ fw_pc = [t \in UdpChannelType |-> "none"]
    /\ close_wakes = FALSE

(* --------------------------- Client helpers --------------------------- *)
\* Client::set_state: exchange, then the observer is told of a change
Notify(old, new) ==
    IF old # new /\ handlers.state THEN <<old, new>> ELSE obs

set_state(new_state) ==
    /\ state_' = new_state
    /\ obs' = Notify(state_, new_state)

is_ready == state_ = "Registered"
get_host_id == assigned_host_id_
get_ports == assigned_ports_

\* threads that are inside a write on the websocket stream
Writing ==
    (IF io_pc \in {"reg_write", "send_write"} /\ ws_ # "null" THEN {"io"} ELSE {}) \cup
    (IF snd_pc = "write" THEN {"app"} ELSE {})


(* ------------------------ application: lifecycle ---------------------- *)
\* The main thread: construct the client and install the state observer, start(),
\* tunnel::initialize(), and at the end stop() and udp::shutdown(), in this order.

\* set_state_handler, called before start()
SetStateHandler ==
    /\ ~crashed /\ main_pc = "init"
    /\ handler_mutex_ = "free"
    /\ handlers' = [handlers EXCEPT !.state = TRUE]
    /\ main_pc' = "made"
    /\ UNCHANGED <<running_, state_, assigned_host_id_, assigned_ports_, io_context_, ws_,
                   handler_mutex_, url_ok>>
    /\ UNCHANGED <<snd_pc, io_launched>>
    /\ UNCHANGED <<ioVars, relayVars, mgrVars, seenVars>>
    /\ UNCHANGED sideVars

\* io_thread_ = make_unique<thread>(run_io_context).  Assigning io_thread_ while it
\* still holds a running thread destroys a joinable std::thread: std::terminate.
LaunchTask ==
    IF io_launched = 0
    THEN /\ io_launched' = 1
         /\ io_pc' = "loop"
         /\ UNCHANGED crashed
    ELSE /\ io_launched' = 2
         /\ crashed' = TRUE
         /\ UNCHANGED io_pc

\* Client::start: if (running_) return true
Start ==
    /\ ~crashed /\ main_pc = "made"
    /\ main_pc' = IF running_ THEN "tunnel0" ELSE "launch"
    /\ UNCHANGED <<snd_pc, io_launched>>
    /\ UNCHANGED <<clientVars, ioVars, relayVars, mgrVars, seenVars>>
    /\ UNCHANGED sideVars

\* Client::start: running_ = true; launch the I/O thread; return true
StartLaunch ==
    /\ ~crashed /\ main_pc = "launch"
    /\ running_' = TRUE
    /\ LaunchTask
    /\ main_pc' = "tunnel0"
    /\ UNCHANGED <<state_, assigned_host_id_, assigned_ports_, io_context_, ws_, handlers,
                   handler_mutex_, url_ok>>
    /\ UNCHANGED <<io_out, read_pending, sleep_i>>
    /\ UNCHANGED snd_pc
    /\ UNCHANGED <<relayVars, mgrVars>>
    /\ UNCHANGED <<obs, last_reg_ports, last_setup, answered>>
    /\ UNCHANGED sideVars

\* a whole start() by another thread, while the main thread is in its own start()
StartOther ==
    /\ ~crashed /\ main_pc \in {"made", "launch"}
    /\ IF running_
       THEN UNCHANGED <<running_, io_launched, io_pc, crashed>>
       ELSE /\ running_' = TRUE
            /\ LaunchTask
    /\ UNCHANGED <<state_, assigned_host_id_, assigned_ports_, io_context_, ws_, handlers,
                   handler_mutex_, url_ok>>
    /\ UNCHANGED <<io_out, read_pending, sleep_i>>
    /\ UNCHANGED <<main_pc, snd_pc>>
    /\ UNCHANGED <<relayVars, mgrVars>>
    /\ UNCHANGED <<obs, last_reg_ports, last_setup, answered>>
    /\ UNCHANGED sideVars

\* tunnel::initialize: set_http_handler, set_rtsp_handler, set_udp_channel_handler,
\* each under the handler mutex
TunnelInitialize ==
    /\ ~crashed /\ main_pc \in {"tunnel0", "tunnel1", "tunnel2"}
    /\ handler_mutex_ = "free"
    /\ handlers' = CASE main_pc = "tunnel0" -> [handlers EXCEPT !.http = TRUE]
                     [] main_pc = "tunnel1" -> [handlers EXCEPT !.rtsp = TRUE]
                     [] OTHER -> [handlers EXCEPT !.udp = TRUE]
    /\ main_pc' = CASE main_pc = "tunnel0" -> "tunnel1"
                    [] main_pc = "tunnel1" -> "tunnel2"
                    [] OTHER -> "up"
    /\ UNCHANGED <<running_, state_, assigned_host_id_, assigned_ports_, io_context_, ws_,
                   handler_mutex_, url_ok>>
    /\ UNCHANGED <<snd_pc, io_launched>>
    /\ UNCHANGED <<ioVars, relayVars, mgrVars, seenVars>>
    /\ UNCHANGED sideVars

(* ------------------------- application: stop() ------------------------ *)
\* running_ = false
StopBegin ==
    /\ ~crashed /\ main_pc = "up"
    /\ running_' = FALSE
    /\ main_pc' = "chk"
    /\ UNCHANGED <<state_, assigned_host_id_, assigned_ports_, io_context_, ws_, handlers,
                   handler_mutex_, url_ok>>
    /\ UNCHANGED <<snd_pc, io_launched>>
    /\ UNCHANGED <<ioVars, relayVars, mgrVars, seenVars>>
    /\ UNCHANGED sideVars

\* if (io_context_)
StopCheckContext ==
    /\ ~crashed /\ main_pc = "chk"
    /\ main_pc' = IF io_context_ # "null" THEN "ctx" ELSE "join"
    /\ UNCHANGED <<snd_pc, io_launched>>
    /\ UNCHANGED <<clientVars, ioVars, relayVars, mgrVars, seenVars>>
    /\ UNCHANGED sideVars

\* io_context_->stop(); on a context the I/O task has released meanwhile the call
\* has no defined effect (see Crash for the other outcome)
StopContext ==
    /\ ~crashed /\ main_pc = "ctx"
    /\ io_context_' = IF io_context_ # "null" THEN "stopped" ELSE io_context_
    /\ main_pc' = "join"
    /\ UNCHANGED <<running_, state_, assigned_host_id_, assigned_ports_, ws_, handlers,
                   handler_mutex_, url_ok>>
    /\ UNCHANGED <<snd_pc, io_launched>>
    /\ UNCHANGED <<ioVars, relayVars, mgrVars, seenVars>>
    /\ UNCHANGED sideVars

\* io_thread_->join() returning, then set_state(Disconnected)
StopJoin ==
    /\ ~crashed /\ main_pc = "join" /\ io_pc = "exited"
    /\ set_state("Disconnected")
    /\ main_pc' = "done"
    /\ UNCHANGED <<running_, assigned_host_id_, assigned_ports_, io_context_, ws_, handlers,
                   handler_mutex_, url_ok>>
    /\ UNCHANGED <<snd_pc, io_launched>>
    /\ UNCHANGED <<ioVars, relayVars, mgrVars>>
    /\ UNCHANGED <<last_reg_ports, last_setup, answered, crashed>>
    /\ UNCHANGED sideVars

\* a second stop(): running_ = false; io_context_ and io_thread_ are null by now;
\* set_state(Disconnected)
StopAgain ==
    /\ ~crashed /\ main_pc = "done"
    /\ running_' = FALSE
    /\ set_state("Disconnected")
    /\ main_pc' = "done2"
    /\ UNCHANGED <<assigned_host_id_, assigned_ports_, io_context_, ws_, handlers,
                   handler_mutex_, url_ok>>
    /\ UNCHANGED <<snd_pc, io_launched>>
    /\ UNCHANGED <<ioVars, relayVars, mgrVars>>
    /\ UNCHANGED <<last_reg_ports, last_setup, answered, crashed>>
    /\ UNCHANGED sideVars

(* -------------------- application: send_session_end ------------------- *)
SessionEndCall ==
    /\ ~crashed /\ snd_pc = "idle"
    /\ main_pc \in {"tunnel0", "tunnel1", "tunnel2", "up", "chk", "ctx", "join"}
    /\ snd_pc' = "test"
    /\ UNCHANGED <<main_pc, io_launched>>
    /\ UNCHANGED <<clientVars, ioVars, relayVars, mgrVars, seenVars>>
    /\ UNCHANGED sideVars

\* send_message: if (ws_)
SessionEndTest ==
    /\ ~crashed /\ snd_pc = "test"
    /\ snd_pc' = IF ws_ # "null" THEN "write" ELSE "idle"
    /\ UNCHANGED <<main_pc, io_launched>>
    /\ UNCHANGED <<clientVars, ioVars, relayVars, mgrVars, seenVars>>
    /\ UNCHANGED sideVars

\* ws_->write(...) returning, or throwing into the catch of send_message when the
\* stream is not open
SessionEndWrite ==
    /\ ~crashed /\ snd_pc = "write"
    /\ snd_pc' = "idle"
    /\ UNCHANGED <<main_pc, io_launched>>
    /\ UNCHANGED <<clientVars, ioVars, relayVars, mgrVars, seenVars>>
    /\ UNCHANGED sideVars

\* The accesses the threads make without synchronisation: a write through a stream
\* the I/O task has destroyed, two writes on one stream at once, stop() on an I/O
\* context the I/O task has released.  Each can also end the process.
Racing ==
    \/ snd_pc = "write" /\ ws_ = "null"
    \/ Writing = {"io", "app"}
    \/ main_pc = "ctx" /\ io_context_ = "null"

Crash ==
    /\ ~crashed /\ Racing
    /\ crashed' = TRUE
    /\ UNCHANGED <<clientVars, ioVars, appVars, relayVars, mgrVars>>
    /\ UNCHANGED <<obs, last_reg_ports, last_setup, answered>>
    /\ UNCHANGED sideVars

(* --------------------- I/O task: run_io_context ----------------------- *)
\* while (running_)
LoopCheck ==
    /\ ~crashed /\ io_pc = "loop"
    /\ io_pc' = IF running_ THEN "connect" ELSE "exited"
    /\ UNCHANGED <<io_out, read_pending, sleep_i>>
    /\ UNCHANGED <<clientVars, appVars, relayVars, mgrVars, seenVars>>
    /\ UNCHANGED sideVars

\* connect(): set_state(Connecting)
ConnectBegin ==
    /\ ~crashed /\ io_pc = "connect"
    /\ set_state("Connecting")
    /\ io_pc' = "parse"
    /\ UNCHANGED <<running_, assigned_host_id_, assigned_ports_, io_context_, ws_, handlers,
                   handler_mutex_, url_ok>>
    /\ UNCHANGED <<io_out, read_pending, sleep_i>>
    /\ UNCHANGED <<appVars, relayVars, mgrVars>>
    /\ UNCHANGED <<last_reg_ports, last_setup, answered, crashed>>
    /\ UNCHANGED sideVars

\* a connect that goes on whatever parse_url returns
ConnectParse_unchecked ==
    /\ ~crashed /\ io_pc = "parse"
    /\ io_context_' = "ready"
    /\ io_pc' = "net"
    /\ UNCHANGED <<running_, state_, assigned_host_id_, assigned_ports_, ws_, handlers,
                   handler_mutex_, url_ok>>
    /\ UNCHANGED <<io_out, read_pending, sleep_i>>
    /\ UNCHANGED <<appVars, relayVars, mgrVars, seenVars>>
    /\ UNCHANGED sideVars

\* parse_url; on failure set_state(Error) and return, else a new I/O context
ConnectParse ==
    /\ ~crashed /\ io_pc = "parse"
    /\ IF url_ok
       THEN /\ io_context_' = "ready"
            /\ io_pc' = "net"
            /\ UNCHANGED <<state_, obs>>
       ELSE /\ set_state("Error")
            /\ io_pc' = "conn_ret"
            /\ UNCHANGED io_context_
    /\ UNCHANGED <<running_, assigned_host_id_, assigned_ports_, ws_, handlers,
                   handler_mutex_, url_ok>>
    /\ UNCHANGED <<io_out, read_pending, sleep_i>>
    /\ UNCHANGED <<appVars, relayVars, mgrVars>>
    /\ UNCHANGED <<last_reg_ports, last_setup, answered, crashed>>
    /\ UNCHANGED sideVars

\* resolve, create the stream, TCP connect, (TLS and) WebSocket handshake.  The
\* resolver throws before the stream exists; connect and handshake throw after.
ConnectNet ==
    /\ ~crashed /\ io_pc = "net"
    /\ \E outcome \in {"resolve_throws", "connect_throws", "ok"} :
          /\ ws_' = CASE outcome = "resolve_throws" -> "null"
                      [] outcome = "connect_throws" -> "closed"
                      [] OTHER -> "open"
          /\ io_pc' = IF outcome = "ok" THEN "connected" ELSE "disconnect"
    /\ UNCHANGED <<running_, state_, assigned_host_id_, assigned_ports_, io_context_,
                   handlers, handler_mutex_, url_ok>>
    /\ UNCHANGED <<io_out, read_pending, sleep_i>>
    /\ UNCHANGED <<appVars, relayVars, mgrVars, seenVars>>
    /\ UNCHANGED sideVars

ConnectConnected ==
    /\ ~crashed /\ io_pc = "connected"
    /\ set_state("Connected")
    /\ io_pc' = "register"
    /\ UNCHANGED <<running_, assigned_host_id_, assigned_ports_, io_context_, ws_, handlers,
                   handler_mutex_, url_ok>>
    /\ UNCHANGED <<io_out, read_pending, sleep_i>>
    /\ UNCHANGED <<appVars, relayVars, mgrVars>>
    /\ UNCHANGED <<last_reg_ports, last_setup, answered, crashed>>
    /\ UNCHANGED sideVars

\* send_registration: the write of the register message begins
send_registration ==
    /\ ~crashed /\ io_pc = "register"
    /\ io_out' = RegisterMessage_to_json
    /\ io_pc' = "reg_write"
    /\ UNCHANGED <<read_pending, sleep_i>>
    /\ UNCHANGED <<clientVars, appVars, relayVars, mgrVars, seenVars>>
    /\ UNCHANGED sideVars

\* the write returns; do_read() posts the first read
RegistrationWritten ==
    /\ ~crashed /\ io_pc = "reg_write"
    /\ io_out' = NoMsg
    /\ read_pending' = TRUE
    /\ io_pc' = "conn_ret"
    /\ UNCHANGED sleep_i
    /\ UNCHANGED <<clientVars, appVars, relayVars, mgrVars, seenVars>>
    /\ UNCHANGED sideVars

\* back in run_io_context: run the I/O context only when connected
ConnectReturn ==
    /\ ~crashed /\ io_pc = "conn_ret"
    /\ io_pc' = IF state_ \in {"Connected", "Registered"} THEN "run" ELSE "disconnect"
    /\ UNCHANGED <<io_out, read_pending, sleep_i>>
    /\ UNCHANGED <<clientVars, appVars, relayVars, mgrVars, seenVars>>
    /\ UNCHANGED sideVars

\* io_context_->run() returns: stopped, or no read is posted any more
RunReturn ==
    /\ ~crashed /\ io_pc = "run"
    /\ io_context_ = "stopped" \/ ~read_pending
    /\ io_pc' = "disconnect"
    /\ UNCHANGED <<io_out, read_pending, sleep_i>>
    /\ UNCHANGED <<clientVars, appVars, relayVars, mgrVars, seenVars>>
    /\ UNCHANGED sideVars

\* a read handler that runs while the handler of the frame before it is still at work
Delivered_anytime ==
    /\ ~crashed /\ io_pc \in {"run", "send_write"} /\ io_context_ = "ready"
    /\ rx # NoFrame

\* a frame or an error is delivered to the read handler
Delivered ==
    /\ ~crashed /\ io_pc = "run" /\ io_context_ = "ready" /\ read_pending
    /\ rx # NoFrame

\* read_handler with an error code: io_context_->stop()
ReadError ==
    /\ Delivered /\ rx = CloseMark
    /\ rx' = NoFrame
    /\ read_pending' = FALSE
    /\ io_context_' = "stopped"
    /\ ws_' = "closed"
    /\ UNCHANGED <<running_, state_, assigned_host_id_, assigned_ports_, handlers,
                   handler_mutex_, url_ok>>
    /\ UNCHANGED <<io_pc, io_out, sleep_i>>
    /\ UNCHANGED frames_left
    /\ UNCHANGED <<appVars, mgrVars, seenVars>>
    /\ UNCHANGED sideVars

(* ------------------------- disconnect() -------------------------------- *)
\* close and release the stream, the TLS context and the I/O context
DisconnectStreams ==
    /\ ~crashed /\ io_pc = "disconnect"
    /\ ws_' = "null"
    /\ io_context_' = "null"
    /\ rx' = NoFrame
    /\ read_pending' = FALSE
    /\ io_pc' = "disc_clear"
    /\ answered' = {}
    /\ UNCHANGED <<running_, state_, assigned_host_id_, assigned_ports_, handlers,
                   handler_mutex_, url_ok>>
    /\ UNCHANGED <<io_out, sleep_i>>
    /\ UNCHANGED frames_left
    /\ UNCHANGED <<appVars, mgrVars>>
    /\ UNCHANGED <<obs, last_reg_ports, last_setup, crashed>>
    /\ UNCHANGED sideVars

\* a disconnect that forgets to clear the assigned state
DisconnectClear_keeps ==
    /\ ~crashed /\ io_pc = "disc_clear"
    /\ io_pc' = "disc_state"
    /\ UNCHANGED <<io_out, read_pending, sleep_i>>
    /\ UNCHANGED <<clientVars, appVars, relayVars, mgrVars, seenVars>>
    /\ UNCHANGED sideVars

\* assigned_host_id_.clear(); assigned_ports_ = {}
DisconnectClear ==
    /\ ~crashed /\ io_pc = "disc_clear"
    /\ assigned_host_id_' = ""
    /\ assigned_ports_' = ZeroPorts
    /\ io_pc' = "disc_state"
    /\ UNCHANGED <<running_, state_, io_context_, ws_, handlers, handler_mutex_, url_ok>>
    /\ UNCHANGED <<io_out, read_pending, sleep_i>>
    /\ UNCHANGED <<appVars, relayVars, mgrVars, seenVars>>
    /\ UNCHANGED sideVars

\* set_state(Disconnected); back in run_io_context: if (running_) wait
DisconnectState ==
    /\ ~crashed /\ io_pc = "disc_state"
    /\ set_state("Disconnected")
    /\ io_pc' = IF running_ THEN "sleep" ELSE "loop"
    /\ sleep_i' = 0
    /\ UNCHANGED <<running_, assigned_host_id_, assigned_ports_, io_context_, ws_, handlers,
                   handler_mutex_, url_ok>>
    /\ UNCHANGED <<io_out, read_pending>>
    /\ UNCHANGED <<appVars, relayVars, mgrVars>>
    /\ UNCHANGED <<last_reg_ports, last_setup, answered, crashed>>
    /\ UNCHANGED sideVars

\* for (i = 0; i < reconnect_interval_seconds_ && running_; ++i) sleep 1s
ReconnectWait ==
    /\ ~crashed /\ io_pc = "sleep"
    /\ IF sleep_i < reconnect_interval_seconds_ /\ running_
       THEN /\ sleep_i' = sleep_i + 1
            /\ UNCHANGED io_pc
       ELSE /\ sleep_i' = 0
            /\ io_pc' = "loop"
    /\ UNCHANGED <<io_out, read_pending>>
    /\ UNCHANGED <<clientVars, appVars, relayVars, mgrVars, seenVars>>
    /\ UNCHANGED sideVars

(* --------------------------- ChannelManager --------------------------- *)
\* ChannelManager::initialize, as the new (running, ports, io_context)
ChannelManager_initialize(video, audio, control) ==
    IF mgr_running
    THEN [running |-> mgr_running, ports |-> mgr_ports, io |-> mgr_io]
    ELSE [running |-> TRUE,
          ports |-> [video |-> video, audio |-> audio, control |-> control],
          io |-> TRUE]

\* a lookup that never finds the record
ChannelExists_never(type) == FALSE

\* it != channels_.end() && it->second
ChannelExists(type) == channels_[type].present

RelayPortOf(ports, type) ==
    CASE type = "Video" -> ports.video
      [] type = "Audio" -> ports.audio
      [] type = "Control" -> ports.control
      [] OTHER -> 0

FreePorts == EphemeralPorts \ { channels_[t].local_port : t \in UdpChannelType }

\* a setup that does not look at running_
handle_channel_setup_unchecked(setup) ==
    LET ack0 == [session_id |-> setup.session_id, channel |-> setup.channel,
                 relay_port |-> 0, local_port |-> 0]
        relay_port == RelayPortOf(mgr_ports, setup.channel)
    IN  IF ChannelExists(setup.channel)
        THEN {[ack |-> [ack0 EXCEPT !.relay_port = relay_port,
                                    !.local_port = channels_[setup.channel].local_port],
               record |-> channels_[setup.channel], created |-> FALSE, existed |-> TRUE]}
        ELSE {[ack |-> [ack0 EXCEPT !.relay_port = relay_port, !.local_port = lp],
               record |-> [present |-> TRUE, local_port |-> lp, relay_port |-> relay_port,
                           sunshine_port |-> get_sunshine_port(setup.channel)],
               created |-> TRUE, existed |-> FALSE] : lp \in FreePorts}

\* a setup whose failed creation leaves the half-made record in the map
handle_channel_setup_leaky(setup) ==
    LET ack0 == [session_id |-> setup.session_id, channel |-> setup.channel,
                 relay_port |-> 0, local_port |-> 0]
        relay_port == RelayPortOf(mgr_ports, setup.channel)
    IN  IF ~mgr_running THEN
            {[ack |-> ack0, record |-> channels_[setup.channel], created |-> FALSE,
              existed |-> FALSE]}
        ELSE IF ChannelExists(setup.channel)
        THEN {[ack |-> [ack0 EXCEPT !.relay_port = relay_port,
                                    !.local_port = channels_[setup.channel].local_port],
               record |-> channels_[setup.channel], created |-> FALSE, existed |-> TRUE]}
        ELSE {[ack |-> ack0,
               record |-> [present |-> TRUE, local_port |-> lp, relay_port |-> relay_port,
                           sunshine_port |-> get_sunshine_port(setup.channel)],
               created |-> FALSE, existed |-> FALSE] : lp \in FreePorts}

\* ChannelManager::handle_channel_setup from the point where it holds mutex_: the acks
\* it can return, each with the record it leaves for the type.  Creating the socket,
\* resolving the relay and starting the thread can throw; the catch leaves the ack zero
\* and no record.
channel_setup_locked(setup) ==
    LET ack0 == [session_id |-> setup.session_id, channel |-> setup.channel,
                 relay_port |-> 0, local_port |-> 0]
        sunshine_port == get_sunshine_port(setup.channel)
        relay_port == RelayPortOf(mgr_ports, setup.channel)
        keep == [ack |-> ack0, record |-> channels_[setup.channel], created |-> FALSE,
                 existed |-> FALSE]
    IN  IF sunshine_port = 0 THEN {keep}
        ELSE IF ChannelExists(setup.channel)
        THEN {[ack |-> [ack0 EXCEPT !.relay_port = relay_port,
                                    !.local_port = channels_[setup.channel].local_port],
               record |-> channels_[setup.channel], created |-> FALSE, existed |-> TRUE]}
        ELSE {keep} \cup
             {[ack |-> [ack0 EXCEPT !.relay_port = relay_port, !.local_port = lp],
               record |-> [present |-> TRUE, local_port |-> lp, relay_port |-> relay_port,
                           sunshine_port |-> sunshine_port],
               created |-> TRUE, existed |-> FALSE] : lp \in FreePorts}

\* ChannelManager::handle_channel_setup, the whole call when no other thread is in
\* the manager: the running_ test, then the part under mutex_
handle_channel_setup(setup) ==
    IF ~mgr_running
    THEN {[ack |-> [session_id |-> setup.session_id, channel |-> setup.channel,
                    relay_port |-> 0, local_port |-> 0],
           record |-> channels_[setup.channel], created |-> FALSE, existed |-> FALSE]}
    ELSE channel_setup_locked(setup)

\* udp::shutdown, called by the lifecycle glue once the client has been stopped
ShutdownFlag ==
    /\ ~crashed /\ main_pc \in {"done", "done2"}
    /\ mgr_running' = FALSE
    /\ main_pc' = "udp_shutdown"
    /\ UNCHANGED <<mgr_ports, mgr_io, channels_, sockets, forwarders>>
    /\ UNCHANGED <<snd_pc, io_launched>>
    /\ UNCHANGED <<clientVars, ioVars, relayVars, seenVars>>
    /\ UNCHANGED sideVars

\* under mutex_: stop, close and join every channel, clear the map, drop the context
ShutdownBody ==
    /\ ~crashed /\ main_pc = "udp_shutdown"
    /\ channels_' = [t \in UdpChannelType |-> NoChannel]
    /\ sockets' = [t \in UdpChannelType |-> 0]
    /\ forwarders' = [t \in UdpChannelType |-> 0]
    /\ mgr_io' = FALSE
    /\ main_pc' = "finished"
    /\ UNCHANGED <<mgr_running, mgr_ports>>
    /\ UNCHANGED <<snd_pc, io_launched>>
    /\ UNCHANGED <<clientVars, ioVars, relayVars>>
    /\ UNCHANGED seenVars
    /\ UNCHANGED sideVars

(* ---------------------- I/O task: handle_message ---------------------- *)
Dispatch(type) ==
    /\ Delivered /\ rx # CloseMark
    /\ parse_message_type(rx) = type

\* after handle_message: if (running_) do_read()
AfterHandle ==
    /\ rx' = NoFrame
    /\ read_pending' = running_

\* case RegisterAck
HandleRegisterAck ==
    /\ Dispatch("register_ack") /\ rx.complete
    /\ LET ack == RegisterAckMessage_from_json(rx)
           m == ChannelManager_initialize(ack.ports.video, ack.ports.audio,
                                          ack.ports.control)
       IN /\ assigned_host_id_' = ack.host_id
          /\ assigned_ports_' = ack.ports
          /\ set_state("Registered")
          /\ mgr_running' = m.running
          /\ mgr_ports' = m.ports
          /\ mgr_io' = m.io
          /\ last_reg_ports' = IF state_ # "Registered" THEN ack.ports ELSE last_reg_ports
    /\ AfterHandle
    /\ UNCHANGED <<running_, io_context_, ws_, handlers, handler_mutex_, url_ok>>
    /\ UNCHANGED <<io_pc, io_out, sleep_i>>
    /\ UNCHANGED frames_left
    /\ UNCHANGED <<channels_, sockets, forwarders>>
    /\ UNCHANGED <<last_setup, answered, crashed>>
    /\ UNCHANGED appVars
    /\ UNCHANGED sideVars

\* a register_error that leaves the I/O context running
HandleRegisterError_goes_on ==
    /\ Dispatch("register_error") /\ rx.complete
    /\ set_state("Error")
    /\ AfterHandle
    /\ UNCHANGED <<running_, assigned_host_id_, assigned_ports_, io_context_, ws_, handlers,
                   handler_mutex_, url_ok>>
    /\ UNCHANGED <<io_pc, io_out, sleep_i>>
    /\ UNCHANGED frames_left
    /\ UNCHANGED <<last_reg_ports, last_setup, answered, crashed>>
    /\ UNCHANGED <<appVars, mgrVars>>
    /\ UNCHANGED sideVars

\* case RegisterError
HandleRegisterError ==
    /\ Dispatch("register_error") /\ rx.complete
    /\ set_state("Error")
    /\ io_context_' = "stopped"
    /\ AfterHandle
    /\ UNCHANGED <<running_, assigned_host_id_, assigned_ports_, ws_, handlers,
                   handler_mutex_, url_ok>>
    /\ UNCHANGED <<io_pc, io_out, sleep_i>>
    /\ UNCHANGED frames_left
    /\ UNCHANGED <<last_reg_ports, last_setup, answered, crashed>>
    /\ UNCHANGED <<appVars, mgrVars>>
    /\ UNCHANGED sideVars

\* case UdpChannelSetup: under the handler mutex, call the handler and start
\* writing its ack
HandleUdpChannelSetup ==
    /\ Dispatch("udp_channel_setup")
    /\ handler_mutex_ = "free"
    /\ handlers.udp => rx.complete
    /\ IF handlers.udp
       THEN \E o \in handle_channel_setup(UdpChannelSetupMessage_from_json(rx)) :
               LET t == o.ack.channel
               IN /\ channels_' = [channels_ EXCEPT ![t] = o.record]
                  /\ sockets' = [sockets EXCEPT ![t] = @ + (IF o.created THEN 1 ELSE 0)]
                  /\ forwarders' =
                        [forwarders EXCEPT ![t] = @ + (IF o.created THEN 1 ELSE 0)]
                  /\ last_setup' = IF o.existed THEN "existed"
                                   ELSE IF o.created THEN "created" ELSE "refused"
                  /\ io_out' = UdpChannelAckMessage_to_json(o.ack)
                  /\ io_pc' = "send_write"
                  /\ handler_mutex_' = "io"
                  /\ rx' = NoFrame
                  /\ read_pending' = FALSE
       ELSE /\ AfterHandle
            /\ UNCHANGED <<channels_, sockets, forwarders, io_out, io_pc,
                           handler_mutex_, last_setup>>
    /\ UNCHANGED <<running_, state_, assigned_host_id_, assigned_ports_, io_context_, ws_,
                   handlers, url_ok>>
    /\ UNCHANGED sleep_i
    /\ UNCHANGED frames_left
    /\ UNCHANGED <<mgr_running, mgr_ports, mgr_io>>
    /\ UNCHANGED <<obs, last_reg_ports, answered, crashed>>
    /\ UNCHANGED appVars
    /\ UNCHANGED sideVars

\* the handler slot a frame type is given to, "" when it has none
SlotOf(type) ==
    CASE type = "http_request" -> "http"
      [] type = "rtsp_request" -> "rtsp"
      [] type = "udp_channel_setup" -> "udp"
      [] OTHER -> ""

\* a dispatch that answers a request whether or not a handler is installed
HandleRequest_always(type) ==
    /\ Dispatch(type)
    /\ handler_mutex_ = "free"
    /\ rx.complete
    /\ IF TRUE
       THEN \E status \in HandlerStatus :
               LET req == IF type = "http_request" THEN HttpRequestMessage_from_json(rx)
                          ELSE RtspRequestMessage_from_json(rx)
                   resp == [id |-> req.id, status |-> status]
               IN /\ io_out' = IF type = "http_request"
                               THEN HttpResponseMessage_to_json(resp)
                               ELSE RtspResponseMessage_to_json(resp)
                  /\ answered' = answered \cup {<<type, req.id>>}
                  /\ io_pc' = "send_write"
                  /\ handler_mutex_' = "io"
                  /\ rx' = NoFrame
                  /\ read_pending' = FALSE
       ELSE /\ AfterHandle
            /\ UNCHANGED <<io_out, io_pc, handler_mutex_, answered>>
    /\ UNCHANGED <<running_, state_, assigned_host_id_, assigned_ports_, io_context_, ws_,
                   handlers, url_ok>>
    /\ UNCHANGED sleep_i
    /\ UNCHANGED frames_left
    /\ UNCHANGED <<obs, last_reg_ports, last_setup, crashed>>
    /\ UNCHANGED <<appVars, mgrVars>>
    /\ UNCHANGED sideVars

\* case HttpRequest / RtspRequest: under the handler mutex, call the handler and
\* start writing its response, which carries the request's id
HandleRequest(type) ==
    /\ Dispatch(type)
    /\ handler_mutex_ = "free"
    /\ handlers[SlotOf(type)] => rx.complete
    /\ IF handlers[SlotOf(type)]
       THEN \E status \in HandlerStatus :
               LET req == IF type = "http_request" THEN HttpRequestMessage_from_json(rx)
                          ELSE RtspRequestMessage_from_json(rx)
                   resp == [id |-> req.id, status |-> status]
               IN /\ io_out' = IF type = "http_request"
                               THEN HttpResponseMessage_to_json(resp)
                               ELSE RtspResponseMessage_to_json(resp)
                  /\ answered' = answered \cup {<<type, req.id>>}
                  /\ io_pc' = "send_write"
                  /\ handler_mutex_' = "io"
                  /\ rx' = NoFrame
                  /\ read_pending' = FALSE
       ELSE /\ AfterHandle
            /\ UNCHANGED <<io_out, io_pc, handler_mutex_, answered>>
    /\ UNCHANGED <<running_, state_, assigned_host_id_, assigned_ports_, io_context_, ws_,
                   handlers, url_ok>>
    /\ UNCHANGED sleep_i
    /\ UNCHANGED frames_left
    /\ UNCHANGED <<obs, last_reg_ports, last_setup, crashed>>
    /\ UNCHANGED <<appVars, mgrVars>>
    /\ UNCHANGED sideVars

HandleHttpRequest == HandleRequest("http_request")
HandleRtspRequest == HandleRequest("rtsp_request")

\* from_json throws on a missing field: the exception leaves the handler (releasing
\* the handler mutex), the read handler and io_context_->run(), and is caught in
\* run_io_context, which goes on to disconnect()
FromJsonThrows ==
    /\ Delivered /\ rx # CloseMark /\ ~rx.complete
    /\ LET type == parse_message_type(rx)
       IN \/ type \in {"register_ack", "register_error", "ping", "error"}
          \/ SlotOf(type) # "" /\ handlers[SlotOf(type)] /\ handler_mutex_ = "free"
    /\ rx' = NoFrame
    /\ read_pending' = FALSE
    /\ io_pc' = "disconnect"
    /\ UNCHANGED <<io_out, sleep_i>>
    /\ UNCHANGED frames_left
    /\ UNCHANGED <<clientVars, appVars, mgrVars, seenVars>>
    /\ UNCHANGED sideVars

\* case Ping: start writing the pong
HandlePing ==
    /\ Dispatch("ping") /\ rx.complete
    /\ io_out' = PongMessage_to_json(PingMessage_from_json(rx).ts)
    /\ io_pc' = "send_write"
    /\ rx' = NoFrame
    /\ read_pending' = FALSE
    /\ UNCHANGED sleep_i
    /\ UNCHANGED frames_left
    /\ UNCHANGED <<clientVars, appVars, mgrVars, seenVars>>
    /\ UNCHANGED sideVars

\* the write in send_message returns; the handler mutex is released;
\* if (running_) do_read()
SendWritten ==
    /\ ~crashed /\ io_pc = "send_write"
    /\ io_out' = NoMsg
    /\ handler_mutex_' = "free"
    /\ read_pending' = running_
    /\ io_pc' = "run"
    /\ last_setup' = "none"
    /\ UNCHANGED <<running_, state_, assigned_host_id_, assigned_ports_, io_context_, ws_,
                   handlers, url_ok>>
    /\ UNCHANGED sleep_i
    /\ UNCHANGED <<appVars, relayVars, mgrVars>>
    /\ UNCHANGED <<obs, last_reg_ports, answered, crashed>>
    /\ UNCHANGED sideVars

\* an error frame that is taken for the end of the registration
HandleError_fatal ==
    /\ Dispatch("error") /\ rx.complete
    /\ set_state("Error")
    /\ io_context_' = "stopped"
    /\ AfterHandle
    /\ UNCHANGED <<running_, assigned_host_id_, assigned_ports_, ws_, handlers,
                   handler_mutex_, url_ok>>
    /\ UNCHANGED <<io_pc, io_out, sleep_i>>
    /\ UNCHANGED frames_left
    /\ UNCHANGED <<last_reg_ports, last_setup, answered, crashed>>
    /\ UNCHANGED <<appVars, mgrVars>>
    /\ UNCHANGED sideVars

\* case Error: logged
HandleError ==
    /\ Dispatch("error") /\ rx.complete
    /\ AfterHandle
    /\ UNCHANGED <<io_pc, io_out, sleep_i>>
    /\ UNCHANGED frames_left
    /\ UNCHANGED <<clientVars, appVars, mgrVars, seenVars>>
    /\ UNCHANGED sideVars

\* a default case that treats an unknown frame as a protocol error and leaves the
\* read-loop
HandleUnknown_leaves ==
    /\ Delivered /\ rx # CloseMark
    /\ parse_message_type(rx) = "unknown"
    /\ rx' = NoFrame
    /\ read_pending' = FALSE
    /\ io_pc' = "disconnect"
    /\ UNCHANGED <<io_out, sleep_i>>
    /\ UNCHANGED frames_left
    /\ UNCHANGED <<clientVars, appVars, mgrVars, seenVars>>
    /\ UNCHANGED sideVars

\* default: logged
HandleUnknown ==
    /\ Delivered /\ rx # CloseMark
    /\ parse_message_type(rx) \notin
          {"register_ack", "register_error", "http_request", "rtsp_request",
           "session_start", "session_end", "udp_channel_setup", "ping", "error"}
    /\ AfterHandle
    /\ UNCHANGED <<io_pc, io_out, sleep_i>>
    /\ UNCHANGED frames_left
    /\ UNCHANGED <<clientVars, appVars, mgrVars, seenVars>>
    /\ UNCHANGED sideVars

(* ------------------------------ the relay ----------------------------- *)
RelaySend ==
    /\ ~crashed /\ ws_ = "open" /\ rx = NoFrame /\ frames_left > 0
    /\ \E f \in RelayFrames : rx' = f
    /\ frames_left' = frames_left - 1
    /\ UNCHANGED <<clientVars, ioVars, appVars, mgrVars, seenVars>>
    /\ UNCHANGED sideVars

RelayClose ==
    /\ ~crashed /\ ws_ = "open" /\ rx = NoFrame
    /\ rx' = CloseMark
    /\ UNCHANGED frames_left
    /\ UNCHANGED <<clientVars, ioVars, appVars, mgrVars, seenVars>>
    /\ UNCHANGED sideVars

(* --------------------------- specification ---------------------------- *)
IOTask ==
    \/ LoopCheck \/ ConnectBegin \/ ConnectParse \/ ConnectNet \/ ConnectConnected
    \/ send_registration \/ RegistrationWritten \/ ConnectReturn \/ RunReturn
    \/ ReadError \/ HandleRegisterAck \/ HandleRegisterError \/ HandleUdpChannelSetup
    \/ HandleHttpRequest \/ HandleRtspRequest \/ FromJsonThrows
    \/ HandlePing \/ SendWritten \/ HandleError \/ HandleUnknown
    \/ DisconnectStreams \/ DisconnectClear \/ DisconnectState \/ ReconnectWait

StopTask == StopCheckContext \/ StopContext \/ StopJoin

Next ==
    \/ SetStateHandler \/ Start \/ StartLaunch \/ StartOther \/ TunnelInitialize
    \/ StopBegin \/ StopCheckContext \/ StopContext \/ StopJoin \/ StopAgain
    \/ ShutdownFlag \/ ShutdownBody
    \/ SessionEndCall \/ SessionEndTest \/ SessionEndWrite
    \/ Crash
    \/ LoopCheck \/ ConnectBegin \/ ConnectParse \/ ConnectNet \/ ConnectConnected
    \/ send_registration \/ RegistrationWritten \/ ConnectReturn \/ RunReturn
    \/ ReadError \/ HandleRegisterAck \/ HandleRegisterError \/ HandleUdpChannelSetup
    \/ HandleHttpRequest \/ HandleRtspRequest \/ FromJsonThrows
    \/ HandlePing \/ SendWritten \/ HandleError \/ HandleUnknown
    \/ DisconnectStreams \/ DisconnectClear \/ DisconnectState \/ ReconnectWait
    \/ RelaySend \/ RelayClose

Spec == Init /\ [][Next]_vars

\* every thread that can take a step eventually does; the relay owes nothing
FairSpec == Spec /\ WF_vars(IOTask) /\ WF_vars(StopTask)

(* ----------------------- the UDP forwarders: run_relay ----------------- *)
\* where run_relay sends a datagram received from sender_addr on channel type
Steer(type, sender_addr) ==
    IF sender_addr = relay_addr
    THEN [addr |-> Loopback, port |-> channels_[type].sunshine_port]
    ELSE [addr |-> relay_addr, port |-> channels_[type].relay_port]

\* receive_from fills the buffer with at most BufferSize bytes
Received(payload) ==
    [payload EXCEPT !.len = IF payload.len > BufferSize THEN BufferSize ELSE payload.len]

\* receive_from returns a datagram
UdpReceive ==
    /\ udp_in = NoDatagram
    /\ \E t \in UdpChannelType, a \in SourceAddrs, pl \in Payloads :
          /\ channels_[t].present /\ forwarders[t] = 1 /\ mgr_running
          /\ udp_in' = [channel |-> t, addr |-> a, port |-> 0, payload |-> Received(pl)]
    /\ UNCHANGED <<relay_addr, udp_out>>
    /\ UNCHANGED <<threadVars, fwdVars, globalVars, lockVars>>
    /\ UNCHANGED <<clientVars, ioVars, appVars, relayVars, mgrVars, seenVars>>

\* send_to(buffer[0, len), dest)
UdpForward ==
    /\ udp_in # NoDatagram
    /\ LET dest == Steer(udp_in.channel, udp_in.addr)
       IN udp_out' = [channel |-> udp_in.channel, addr |-> dest.addr, port |-> dest.port,
                      payload |-> udp_in.payload]
    /\ udp_in' = NoDatagram
    /\ UNCHANGED relay_addr
    /\ UNCHANGED <<threadVars, fwdVars, globalVars, lockVars>>
    /\ UNCHANGED <<clientVars, ioVars, appVars, relayVars, mgrVars, seenVars>>

\* receive_from returns an error: the forwarder leaves its loop
UdpReceiveError ==
    /\ udp_in = NoDatagram
    /\ \E t \in UdpChannelType :
          /\ channels_[t].present /\ forwarders[t] = 1
          /\ forwarders' = [forwarders EXCEPT ![t] = 0]
    /\ UNCHANGED <<mgr_running, mgr_ports, mgr_io, channels_, sockets>>
    /\ UNCHANGED sideVars
    /\ UNCHANGED <<clientVars, ioVars, appVars, relayVars, seenVars>>

\* the records a registered client can have collected: one setup frame each, after the
\* register_ack, each socket on its own port
RecordSets ==
    { c \in [UdpChannelType -> {NoChannel} \cup
               { [present |-> TRUE, local_port |-> lp,
                  relay_port |-> RelayPortOf(Ports1, t),
                  sunshine_port |-> get_sunshine_port(t)] :
                 lp \in EphemeralPorts, t \in UdpChannelType }] :
        /\ \A t \in UdpChannelType :
              c[t].present => /\ c[t].relay_port = RelayPortOf(Ports1, t)
                              /\ c[t].sunshine_port = get_sunshine_port(t)
        /\ \A t, u \in UdpChannelType :
              (t # u /\ c[t].present /\ c[u].present) => c[t].local_port # c[u].local_port
        /\ \E t \in UdpChannelType : c[t].present
        /\ Cardinality({t \in UdpChannelType : c[t].present}) < MaxFrames }

\* a client registered as h1 with its channels set up and forwarders running
InitUdp ==
    /\ running_ = TRUE
    /\ state_ = "Registered"
    /\ assigned_host_id_ = "h1"
    /\ assigned_ports_ = Ports1
    /\ io_context_ = "ready"
    /\ ws_ = "open"
    /\ handlers = [http |-> TRUE, rtsp |-> TRUE, udp |-> TRUE, state |-> TRUE]
    /\ handler_mutex_ = "free"
    /\ url_ok = TRUE
    /\ io_pc = "run"
    /\ io_out = NoMsg
    /\ read_pending = TRUE
    /\ sleep_i = 0
    /\ main_pc = "up"
    /\ snd_pc = "idle"
    /\ io_launched = 1
    /\ rx = NoFrame
    /\ mgr_running = TRUE
    /\ mgr_ports = [video |-> Ports1.video, audio |-> Ports1.audio, control |-> Ports1.control]
    /\ mgr_io = TRUE
    /\ channels_ \in RecordSets
    /\ frames_left = MaxFrames - 1 - Cardinality({t \in UdpChannelType : channels_[t].present})
    /\ sockets = [t \in UdpChannelType |-> IF channels_[t].present THEN 1 ELSE 0]
    /\ forwarders = [t \in UdpChannelType |-> IF channels_[t].present THEN 1 ELSE 0]
    /\ obs = <<"Connected", "Registered">>
    /\ last_reg_ports = Ports1
    /\ last_setup = "none"
    /\ answered = {}
    /\ crashed = FALSE
    /\ relay_addr \in RelayAddrs
    /\ udp_in = NoDatagram
    /\ udp_out = NoDatagram
    /\ set_state_call = NoCall
    /\ setter = NoSetters
    /\ cfg = GoodConfig
    /\ g_client = TRUE
    /\ init_calls = 1
    /\ init_ret = TRUE
    /\ tunnel_ret = TRUE
    /\ fwd_req = NoRequest
    /\ fwd_local = NoLocal
    /\ fwd_sent = NothingSent
    /\ fwd_resp = NoResponse
    /\ mutex_ = "free"
    /\ fw_pc = [t \in UdpChannelType |-> "none"]
    /\ close_wakes = FALSE

NextUdp == UdpReceive \/ UdpForward \/ UdpReceiveError

\* the forwarders alone, from a registered client with channels
UdpSpec == InitUdp /\ [][NextUdp]_vars

(* -------------- ChannelManager: its threads one by one ---------------- *)
\* The I/O thread calls initialize (on a register_ack) and handle_channel_setup (on a
\* udp_channel_setup), another thread calls shutdown, and every channel has its
\* forwarder thread.  frames_left bounds the calls of the I/O thread.

\* std::map iterates in the order of the enum
ChannelOrder == <<"Video", "Audio", "Control">>

\* the first channel type, in map order, that is in the set S
FirstChannel(S) ==
    IF \E i \in 1..3 : ChannelOrder[i] \in S
    THEN ChannelOrder[CHOOSE i \in 1..3 :
            ChannelOrder[i] \in S /\ \A j \in 1..(i - 1) : ChannelOrder[j] \notin S]
    ELSE ""

\* initialize: lock mutex_; if (running_) return true
MgrInitializeLock ==
    /\ ~crashed /\ io_pc = "mgr_idle" /\ frames_left > 0
    /\ mutex_ = "free"
    /\ frames_left' = frames_left - 1
    /\ IF mgr_running
       THEN UNCHANGED <<mutex_, io_pc>>
       ELSE mutex_' = "io" /\ io_pc' = "init_set"
    /\ UNCHANGED <<io_out, read_pending, sleep_i, rx>>
    /\ UNCHANGED <<fw_pc, close_wakes>>
    /\ UNCHANGED <<clientVars, appVars, mgrVars, seenVars, udpVars, fwdVars, globalVars, lockVars>>

\* initialize: the relay ports, a new io_context_, running_ = true; unlock
MgrInitializeSet ==
    /\ ~crashed /\ io_pc = "init_set"
    /\ mgr_ports' = [video |-> assigned_ports_.video, audio |-> assigned_ports_.audio,
                     control |-> assigned_ports_.control]
    /\ mgr_io' = TRUE
    /\ mgr_running' = TRUE
    /\ mutex_' = "free"
    /\ io_pc' = "mgr_idle"
    /\ UNCHANGED <<channels_, sockets, forwarders>>
    /\ UNCHANGED <<io_out, read_pending, sleep_i>>
    /\ UNCHANGED <<fw_pc, close_wakes>>
    /\ UNCHANGED <<clientVars, appVars, relayVars, seenVars, udpVars, fwdVars, globalVars, lockVars>>

\* handle_channel_setup: if (!running_) return the zero ack
MgrSetupCall ==
    /\ ~crashed /\ io_pc = "mgr_idle" /\ frames_left > 0
    /\ frames_left' = frames_left - 1
    /\ \E f \in UdpSetupFrames :
          LET setup == UdpChannelSetupMessage_from_json(f)
          IN IF ~mgr_running
             THEN /\ io_out' = UdpChannelAckMessage_to_json(
                                  [session_id |-> setup.session_id,
                                   channel |-> setup.channel,
                                   relay_port |-> 0, local_port |-> 0])
                  /\ last_setup' = "refused"
                  /\ UNCHANGED <<rx, io_pc>>
             ELSE /\ rx' = f
                  /\ io_out' = NoMsg
                  /\ last_setup' = "none"
                  /\ io_pc' = "su_lock"
    /\ UNCHANGED <<read_pending, sleep_i>>
    /\ UNCHANGED <<obs, last_reg_ports, answered, crashed>>
    /\ UNCHANGED threadVars
    /\ UNCHANGED <<clientVars, appVars, mgrVars, udpVars, fwdVars, globalVars, lockVars>>

\* handle_channel_setup: lock mutex_
MgrSetupLock ==
    /\ ~crashed /\ io_pc = "su_lock"
    /\ mutex_ = "free"
    /\ mutex_' = "io"
    /\ io_pc' = "su_body"
    /\ UNCHANGED <<io_out, read_pending, sleep_i>>
    /\ UNCHANGED <<fw_pc, close_wakes>>
    /\ UNCHANGED <<clientVars, appVars, relayVars, mgrVars, seenVars, udpVars, fwdVars, globalVars, lockVars>>

\* the setup in rx has to make a socket on *io_context_
SetupCreates ==
    LET setup == UdpChannelSetupMessage_from_json(rx)
    IN get_sunshine_port(setup.channel) # 0 /\ ~ChannelExists(setup.channel)

\* handle_channel_setup under mutex_; the new socket is made on *io_context_, and
\* with io_context_ null that is undefined
MgrSetupBody ==
    /\ ~crashed /\ io_pc = "su_body"
    /\ IF SetupCreates /\ ~mgr_io
       THEN /\ crashed' = TRUE
            /\ UNCHANGED <<channels_, sockets, forwarders, fw_pc, last_setup, io_out,
                           io_pc, mutex_, rx>>
       ELSE /\ \E o \in channel_setup_locked(UdpChannelSetupMessage_from_json(rx)) :
                  LET t == o.ack.channel
                  IN /\ channels_' = [channels_ EXCEPT ![t] = o.record]
                     /\ sockets' = [sockets EXCEPT ![t] = IF o.created THEN 1 ELSE @]
                     /\ forwarders' = [forwarders EXCEPT ![t] = IF o.created THEN 1 ELSE @]
                     /\ fw_pc' = [fw_pc EXCEPT ![t] = IF o.created THEN "lookup" ELSE @]
                     /\ last_setup' = IF o.existed THEN "existed"
                                      ELSE IF o.created THEN "created" ELSE "refused"
                     /\ io_out' = UdpChannelAckMessage_to_json(o.ack)
            /\ mutex_' = "free"
            /\ io_pc' = "mgr_idle"
            /\ rx' = NoFrame
            /\ UNCHANGED crashed
    /\ UNCHANGED <<mgr_running, mgr_ports, mgr_io>>
    /\ UNCHANGED <<read_pending, sleep_i, frames_left, close_wakes>>
    /\ UNCHANGED <<obs, last_reg_ports, answered>>
    /\ UNCHANGED <<clientVars, appVars, udpVars, fwdVars, globalVars, lockVars>>

\* shutdown: running_ = false
MgrShutdownBegin ==
    /\ ~crashed /\ main_pc = "up"
    /\ mgr_running' = FALSE
    /\ main_pc' = "sd_lock"
    /\ UNCHANGED <<mgr_ports, mgr_io, channels_, sockets, forwarders>>
    /\ UNCHANGED <<snd_pc, io_launched>>
    /\ UNCHANGED <<clientVars, ioVars, relayVars, seenVars, sideVars>>

\* shutdown: lock mutex_
MgrShutdownLock ==
    /\ ~crashed /\ main_pc = "sd_lock"
    /\ mutex_ = "free"
    /\ mutex_' = "main"
    /\ main_pc' = "sd_loop"
    /\ UNCHANGED <<snd_pc, io_launched>>
    /\ UNCHANGED <<fw_pc, close_wakes>>
    /\ UNCHANGED <<clientVars, ioVars, relayVars, mgrVars, seenVars, udpVars, fwdVars, globalVars, lockVars>>

\* the record shutdown's loop is at: the first whose socket is still open
NextToClose == FirstChannel({ t \in UdpChannelType : channels_[t].present /\ sockets[t] = 1 })

\* shutdown, for the next record: channel->running = false; socket->close()
MgrShutdownClose ==
    /\ ~crashed /\ main_pc = "sd_loop"
    /\ NextToClose # ""
    /\ sockets' = [sockets EXCEPT ![NextToClose] = 0]
    /\ main_pc' = "sd_join"
    /\ UNCHANGED <<mgr_running, mgr_ports, mgr_io, channels_, forwarders>>
    /\ UNCHANGED <<snd_pc, io_launched>>
    /\ UNCHANGED <<clientVars, ioVars, relayVars, seenVars, sideVars>>

\* the record whose thread shutdown is joining
Joining ==
    FirstChannel({ t \in UdpChannelType :
                     channels_[t].present /\ sockets[t] = 0 /\ fw_pc[t] # "none" })

\* shutdown: relay_thread.join() returns once the forwarder has left run_relay
MgrShutdownJoin ==
    /\ ~crashed /\ main_pc = "sd_join"
    /\ fw_pc[Joining] = "exited"
    /\ fw_pc' = [fw_pc EXCEPT ![Joining] = "none"]
    /\ main_pc' = "sd_loop"
    /\ UNCHANGED <<mutex_, close_wakes>>
    /\ UNCHANGED <<snd_pc, io_launched>>
    /\ UNCHANGED <<clientVars, ioVars, relayVars, mgrVars, seenVars, udpVars, fwdVars, globalVars, lockVars>>

\* shutdown: channels_.clear(); io_context_.reset(); unlock and return
MgrShutdownEnd ==
    /\ ~crashed /\ main_pc = "sd_loop"
    /\ NextToClose = ""
    /\ channels_' = [t \in UdpChannelType |-> NoChannel]
    /\ mgr_io' = FALSE
    /\ mutex_' = "free"
    /\ main_pc' = "sd_done"
    /\ UNCHANGED <<mgr_running, mgr_ports, sockets, forwarders>>
    /\ UNCHANGED <<snd_pc, io_launched>>
    /\ UNCHANGED <<fw_pc, close_wakes>>
    /\ UNCHANGED <<clientVars, ioVars, relayVars, seenVars, udpVars, fwdVars, globalVars, lockVars>>

\* a forwarder leaves run_relay
RelayExit(t) ==
    /\ fw_pc' = [fw_pc EXCEPT ![t] = "exited"]
    /\ forwarders' = [forwarders EXCEPT ![t] = 0]

\* run_relay: under mutex_, find the own record; return if there is none
RelayLookup(t) ==
    /\ ~crashed /\ fw_pc[t] = "lookup"
    /\ mutex_ = "free"
    /\ IF channels_[t].present
       THEN fw_pc' = [fw_pc EXCEPT ![t] = "loop"] /\ UNCHANGED forwarders
       ELSE RelayExit(t)
    /\ UNCHANGED <<mgr_running, mgr_ports, mgr_io, channels_, sockets>>
    /\ UNCHANGED <<mutex_, close_wakes>>
    /\ UNCHANGED <<clientVars, ioVars, appVars, relayVars, seenVars, udpVars, fwdVars, globalVars, lockVars>>

\* run_relay: while (channel->running && running_); shutdown clears running_ before
\* it clears channel->running
RelayLoop(t) ==
    /\ ~crashed /\ fw_pc[t] = "loop"
    /\ IF mgr_running
       THEN fw_pc' = [fw_pc EXCEPT ![t] = "recv"] /\ UNCHANGED forwarders
       ELSE RelayExit(t)
    /\ UNCHANGED <<mgr_running, mgr_ports, mgr_io, channels_, sockets>>
    /\ UNCHANGED <<mutex_, close_wakes>>
    /\ UNCHANGED <<clientVars, ioVars, appVars, relayVars, seenVars, udpVars, fwdVars, globalVars, lockVars>>

\* run_relay: a datagram arrives, receive_from returns and the datagram is sent on
\* (or, on a closed socket, send_to reports an error that is only logged)
RelayDatagram(t) ==
    /\ ~crashed /\ fw_pc[t] = "recv"
    /\ fw_pc' = [fw_pc EXCEPT ![t] = "loop"]
    /\ UNCHANGED <<mutex_, close_wakes>>
    /\ UNCHANGED <<clientVars, ioVars, appVars, relayVars, mgrVars, seenVars, udpVars, fwdVars, globalVars, lockVars>>

\* run_relay: receive_from returns an error because the socket was closed
RelayClosed(t) ==
    /\ ~crashed /\ fw_pc[t] = "recv"
    /\ sockets[t] = 0 /\ close_wakes
    /\ RelayExit(t)
    /\ UNCHANGED <<mgr_running, mgr_ports, mgr_io, channels_, sockets>>
    /\ UNCHANGED <<mutex_, close_wakes>>
    /\ UNCHANGED <<clientVars, ioVars, appVars, relayVars, seenVars, udpVars, fwdVars, globalVars, lockVars>>

\* run_relay: receive_from returns an error on an open socket (a refused or unreachable
\* peer): the warning is logged and the loop left; the record stays in channels_
RelayReceiveError(t) ==
    /\ ~crashed /\ fw_pc[t] = "recv"
    /\ sockets[t] = 1
    /\ RelayExit(t)
    /\ UNCHANGED <<mgr_running, mgr_ports, mgr_io, channels_, sockets>>
    /\ UNCHANGED <<mutex_, close_wakes>>
    /\ UNCHANGED <<clientVars, ioVars, appVars, relayVars, seenVars, udpVars, fwdVars, globalVars, lockVars>>

\* a registered client whose manager has not been initialised; whether close() ends a
\* blocked receive_from is the platform's choice
InitMgr ==
    /\ running_ = TRUE
    /\ state_ = "Registered"
    /\ assigned_host_id_ = "h1"
    /\ assigned_ports_ = Ports1
    /\ io_context_ = "ready"
    /\ ws_ = "open"
    /\ handlers = [http |-> TRUE, rtsp |-> TRUE, udp |-> TRUE, state |-> TRUE]
    /\ handler_mutex_ = "free"
    /\ url_ok = TRUE
    /\ io_pc = "mgr_idle"
    /\ io_out = NoMsg
    /\ read_pending = FALSE
    /\ sleep_i = 0
    /\ main_pc = "up"
    /\ snd_pc = "idle"
    /\ io_launched = 1
    /\ rx = NoFrame
    /\ frames_left = MaxFrames
    /\ mgr_running = FALSE
    /\ mgr_ports = [video |-> 0, audio |-> 0, control |-> 0]
    /\ mgr_io = FALSE
    /\ channels_ = [t \in UdpChannelType |-> NoChannel]
    /\ sockets = [t \in UdpChannelType |-> 0]
    /\ forwarders = [t \in UdpChannelType |-> 0]
    /\ obs = <<"Connected", "Registered">>
    /\ last_reg_ports = Ports1
    /\ last_setup = "none"
    /\ answered = {}
    /\ crashed = FALSE
    /\ relay_addr = RemoteAddr
    /\ udp_in = NoDatagram
    /\ udp_out = NoDatagram
    /\ set_state_call = NoCall
    /\ setter = NoSetters
    /\ cfg = GoodConfig
    /\ g_client = TRUE
    /\ init_calls = 1
    /\ init_ret = TRUE
    /\ tunnel_ret = TRUE
    /\ fwd_req = NoRequest
    /\ fwd_local = NoLocal
    /\ fwd_sent = NothingSent
    /\ fwd_resp = NoResponse
    /\ mutex_ = "free"
    /\ fw_pc = [t \in UdpChannelType |-> "none"]
    /\ close_wakes \in BOOLEAN

MgrIOThread ==
    MgrInitializeLock \/ MgrInitializeSet \/ MgrSetupCall \/ MgrSetupLock \/ MgrSetupBody

MgrShutdownThread ==
    MgrShutdownBegin \/ MgrShutdownLock \/ MgrShutdownClose \/ MgrShutdownJoin
    \/ MgrShutdownEnd

\* what a forwarder does of its own accord
RelayThread(t) == RelayLookup(t) \/ RelayLoop(t) \/ RelayClosed(t)

NextMgr ==
    \/ MgrInitializeLock \/ MgrInitializeSet \/ MgrSetupCall \/ MgrSetupLock
    \/ MgrSetupBody
    \/ MgrShutdownBegin \/ MgrShutdownLock \/ MgrShutdownClose \/ MgrShutdownJoin
    \/ MgrShutdownEnd
    \/ \E t \in UdpChannelType : RelayLookup(t)
    \/ \E t \in UdpChannelType : RelayLoop(t)
    \/ \E t \in UdpChannelType : RelayDatagram(t)
    \/ \E t \in UdpChannelType : RelayClosed(t)
    \/ \E t \in UdpChannelType : RelayReceiveError(t)

MgrSpec == InitMgr /\ [][NextMgr]_vars

\* every thread that can take a step eventually does; nobody owes a datagram
FairMgrSpec ==
    /\ MgrSpec
    /\ WF_vars(MgrIOThread)
    /\ WF_vars(MgrShutdownThread)
    /\ \A t \in UdpChannelType : WF_vars(RelayThread(t))

(* ---------------- the loopback HTTP forwarder, by itself ---------------- *)
\* net::map_port(nvhttp::PORT_HTTP or PORT_HTTPS): the streaming host's base port, and
\* five below it
map_port(is_https) == IF is_https THEN BasePort - 5 ELSE BasePort

\* a forwarder that passes on every ingress header
Forwarded_all(headers) ==
    SelectSeq(HeaderOrder, LAMBDA name : name \in headers)

\* the ingress headers handler::handle_http_request passes on, in map order
Forwarded(headers) ==
    SelectSeq(HeaderOrder,
              LAMBDA name : /\ name \in headers
                            /\ tolower(name) \notin {"host", "connection", "transfer-encoding"})

\* the request handler::handle_http_request writes to the local server
BuildRequest(req) ==
    LET port == map_port(req.is_https)
        full_path == IF req.query # "" THEN <<req.path, "?", req.query>> ELSE <<req.path>>
        fwd == Forwarded(req.headers)
    IN [line |-> <<req.method, full_path, "HTTP/1.1">>,
        headers |->
            <<[name |-> "Host", value |-> <<"127.0.0.1", port>>]>>
            \o [i \in 1..Len(fwd) |-> [name |-> fwd[i], value |-> IngressValue(fwd[i])]]
            \o <<[name |-> "X-Forwarded-For", value |-> req.client_addr],
                 [name |-> "X-Starbeam-Client", value |-> req.client_addr]>>
            \o (IF req.body # << >>
                THEN <<[name |-> "Content-Length", value |-> Len(req.body)]>>
                ELSE << >>)
            \o <<[name |-> "Connection", value |-> "close"]>>,
        body |-> req.body]

\* handler::handle_http_request: the (status, content_type, body) tuples it can return
\* against a local side that behaves as local does
handler_http_request(local) ==
    CASE local.kind \in {"refused", "reset", "bad_length"} ->
            {[status |-> 500, content_type |-> "text/plain",
              body |-> Text("Internal Server Error")]}
      [] local.kind = "closed" ->
            {[status |-> st, content_type |-> "", body |-> << >>] :
                st \in IndeterminateStatus}
      [] local.kind = "garbled" ->
            {[status |-> 0, content_type |-> "", body |-> << >>]}
      [] OTHER ->
            {[status |-> local.status,
              content_type |-> IF tolower(local.type_name) = "content-type"
                               THEN local.type ELSE "",
              body |-> local.body]}

\* tunnel::handle_http_request: the response for req
tunnel_http_response(req, local) ==
    IF local.kind = "unregistered"
    THEN {[id |-> req.id, status |-> 500, headers |-> {}, has_body |-> TRUE,
           body |-> Text("Internal Server Error: No handler")]}
    ELSE { [id |-> req.id, status |-> r.status,
            headers |-> IF r.content_type # ""
                        THEN {[name |-> "Content-Type", value |-> r.content_type]}
                        ELSE {},
            has_body |-> r.body # << >>,
            body |-> r.body] : r \in handler_http_request(local) }

\* an http_request is about to be handled against some local side
InitHttp ==
    /\ running_ = TRUE
    /\ state_ = "Registered"
    /\ assigned_host_id_ = "h1"
    /\ assigned_ports_ = Ports1
    /\ io_context_ = "ready"
    /\ ws_ = "open"
    /\ handlers = [http |-> TRUE, rtsp |-> TRUE, udp |-> TRUE, state |-> TRUE]
    /\ handler_mutex_ = "io"
    /\ url_ok = TRUE
    /\ io_pc = "in_http_handler"
    /\ io_out = NoMsg
    /\ read_pending = FALSE
    /\ sleep_i = 0
    /\ main_pc = "up"
    /\ snd_pc = "idle"
    /\ io_launched = 1
    /\ rx = NoFrame
    /\ frames_left = MaxFrames - 2
    /\ mgr_running = TRUE
    /\ mgr_ports = [video |-> Ports1.video, audio |-> Ports1.audio, control |-> Ports1.control]
    /\ mgr_io = TRUE
    /\ channels_ = [t \in UdpChannelType |-> NoChannel]
    /\ sockets = [t \in UdpChannelType |-> 0]
    /\ forwarders = [t \in UdpChannelType |-> 0]
    /\ obs = <<"Connected", "Registered">>
    /\ last_reg_ports = Ports1
    /\ last_setup = "none"
    /\ answered = {}
    /\ crashed = FALSE
    /\ relay_addr = RemoteAddr
    /\ udp_in = NoDatagram
    /\ udp_out = NoDatagram
    /\ mutex_ = "free"
    /\ fw_pc = [t \in UdpChannelType |-> "none"]
    /\ close_wakes = FALSE
    /\ set_state_call = NoCall
    /\ setter = NoSetters
    /\ cfg = GoodConfig
    /\ g_client = TRUE
    /\ init_calls = 1
    /\ init_ret = TRUE
    /\ tunnel_ret = TRUE
    /\ fwd_req \in HttpRequests
    /\ fwd_local \in LocalAnswers \cup LocalFailures \cup {LocalUnregistered}
    /\ fwd_sent = NothingSent
    /\ fwd_resp = NoResponse

\* tunnel::handle_http_request from call to return; the request reaches the local
\* server unless there is no forwarder, nothing listens, or the write breaks
HttpForward ==
    /\ io_pc = "in_http_handler"
    /\ fwd_sent' = IF fwd_local.kind \in {"unregistered", "refused", "reset"}
                   THEN NothingSent ELSE BuildRequest(fwd_req)
    /\ fwd_resp' \in tunnel_http_response(fwd_req, fwd_local)
    /\ io_out' = HttpResponseMessage_to_json(fwd_resp')
    /\ io_pc' = "send_write"
    /\ UNCHANGED <<fwd_req, fwd_local>>
    /\ UNCHANGED <<read_pending, sleep_i>>
    /\ UNCHANGED <<clientVars, appVars, relayVars, mgrVars, seenVars, udpVars, threadVars,
                   globalVars, lockVars>>

NextHttp == HttpForward

HttpSpec == InitHttp /\ [][NextHttp]_vars

(* ------------- the global functions: initialize, shutdown ------------- *)
\* The lifecycle glue calls starbeam::initialize(), tunnel::initialize() and
\* starbeam::shutdown() one after the other, in any order; main_pc tells which call
\* it is in.  The configuration is read at start-up and stays as it is.

\* starbeam::initialize() makes a client whatever auth_key is
initialize_creates_nokey(c, client) ==
    c.enabled /\ ~client /\ c.server_url # ""

\* starbeam::initialize() gets as far as make_shared<Client>
initialize_creates(c, client) ==
    c.enabled /\ ~client /\ c.server_url # "" /\ c.auth_key # ""

\* what starbeam::initialize() returns
initialize_returns(c, client) ==
    IF ~c.enabled THEN FALSE
    ELSE IF client THEN TRUE
    ELSE c.server_url # "" /\ c.auth_key # ""

\* tunnel::is_active
is_active == g_client /\ is_ready

GlobalCall ==
    /\ main_pc = "g_idle"
    /\ \E call \in {"g_initialize", "g_tunnel", "g_shutdown"} :
          /\ call = "g_initialize" => init_calls < MaxCalls
          /\ main_pc' = call
    /\ UNCHANGED <<snd_pc, io_launched>>
    /\ UNCHANGED <<clientVars, ioVars, relayVars, mgrVars, seenVars, sideVars>>

\* starbeam::initialize(), under g_client_mutex; a new client is started at once
GlobalInitialize ==
    /\ main_pc = "g_initialize"
    /\ main_pc' = "g_idle"
    /\ init_calls' = init_calls + 1
    /\ init_ret' = initialize_returns(cfg, g_client)
    /\ IF initialize_creates(cfg, g_client)
       THEN /\ g_client' = TRUE
            /\ running_' = TRUE
            /\ io_launched' = io_launched + 1
            /\ io_pc' = "loop"
       ELSE UNCHANGED <<g_client, running_, io_launched, io_pc>>
    /\ UNCHANGED <<cfg, tunnel_ret>>
    /\ UNCHANGED <<state_, assigned_host_id_, assigned_ports_, io_context_, ws_, handlers,
                   handler_mutex_, url_ok>>
    /\ UNCHANGED <<io_out, read_pending, sleep_i, snd_pc>>
    /\ UNCHANGED <<relayVars, mgrVars, seenVars, udpVars, threadVars, fwdVars, lockVars>>

\* tunnel::initialize(): without a client return false, else install the three
\* handlers
GlobalTunnelInitialize ==
    /\ main_pc = "g_tunnel"
    /\ main_pc' = "g_idle"
    /\ tunnel_ret' = g_client
    /\ handlers' = IF g_client
                   THEN [handlers EXCEPT !.http = TRUE, !.rtsp = TRUE, !.udp = TRUE]
                   ELSE handlers
    /\ UNCHANGED <<cfg, g_client, init_calls, init_ret>>
    /\ UNCHANGED <<running_, state_, assigned_host_id_, assigned_ports_, io_context_, ws_,
                   handler_mutex_, url_ok>>
    /\ UNCHANGED <<snd_pc, io_launched>>
    /\ UNCHANGED <<ioVars, relayVars, mgrVars, seenVars, udpVars, threadVars, fwdVars,
                   lockVars>>

\* starbeam::shutdown(): stop the client and drop it
GlobalShutdown ==
    /\ main_pc = "g_shutdown"
    /\ main_pc' = "g_idle"
    /\ g_client' = FALSE
    /\ running_' = FALSE
    /\ state_' = "Disconnected"
    /\ assigned_host_id_' = ""
    /\ assigned_ports_' = ZeroPorts
    /\ handlers' = [http |-> FALSE, rtsp |-> FALSE, udp |-> FALSE, state |-> FALSE]
    /\ io_pc' = IF g_client THEN "exited" ELSE io_pc
    /\ UNCHANGED <<cfg, init_calls, init_ret, tunnel_ret>>
    /\ UNCHANGED <<io_context_, ws_, handler_mutex_, url_ok>>
    /\ UNCHANGED <<io_out, read_pending, sleep_i, snd_pc, io_launched>>
    /\ UNCHANGED <<relayVars, mgrVars, seenVars, udpVars, threadVars, fwdVars, lockVars>>

\* the I/O task of the started client, as far as get_state() shows it: connect,
\* register, lose the connection
GlobalClientStep ==
    /\ g_client /\ running_ /\ main_pc = "g_idle"
    /\ state_' = CASE state_ = "Disconnected" -> "Connecting"
                   [] state_ = "Connecting" -> "Connected"
                   [] state_ = "Connected" -> "Registered"
                   [] OTHER -> "Disconnected"
    /\ assigned_host_id_' = IF state_' = "Registered" THEN "h1" ELSE ""
    /\ assigned_ports_' = IF state_' = "Registered" THEN Ports1 ELSE ZeroPorts
    /\ UNCHANGED <<running_, io_context_, ws_, handlers, handler_mutex_, url_ok>>
    /\ UNCHANGED <<ioVars, appVars, relayVars, mgrVars, seenVars, sideVars>>

\* the process before the lifecycle glue has called anything
InitGlobal ==
    /\ running_ = FALSE
    /\ state_ = "Disconnected"
    /\ assigned_host_id_ = ""
    /\ assigned_ports_ = ZeroPorts
    /\ io_context_ = "null"
    /\ ws_ = "null"
    /\ handlers = [http |-> FALSE, rtsp |-> FALSE, udp |-> FALSE, state |-> FALSE]
    /\ handler_mutex_ = "free"
    /\ url_ok = TRUE
    /\ io_pc = "none"
    /\ io_out = NoMsg
    /\ read_pending = FALSE
    /\ sleep_i = 0
    /\ main_pc = "g_idle"
    /\ snd_pc = "idle"
    /\ io_launched = 0
    /\ rx = NoFrame
    /\ frames_left = MaxFrames
    /\ mgr_running = FALSE
    /\ mgr_ports = [video |-> 0, audio |-> 0, control |-> 0]
    /\ mgr_io = FALSE
    /\ channels_ = [t \in UdpChannelType |-> NoChannel]
    /\ sockets = [t \in UdpChannelType |-> 0]
    /\ forwarders = [t \in UdpChannelType |-> 0]
    /\ obs = <<"", "">>
    /\ last_reg_ports = ZeroPorts
    /\ last_setup = "none"
    /\ answered = {}
    /\ crashed = FALSE
    /\ relay_addr = RemoteAddr
    /\ udp_in = NoDatagram
    /\ udp_out = NoDatagram
    /\ mutex_ = "free"
    /\ fw_pc = [t \in UdpChannelType |-> "none"]
    /\ close_wakes = FALSE
    /\ fwd_req = NoRequest
    /\ fwd_local = NoLocal
    /\ fwd_sent = NothingSent
    /\ fwd_resp = NoResponse
    /\ set_state_call = NoCall
    /\ setter = NoSetters
    /\ cfg \in Configs
    /\ g_client = FALSE
    /\ init_calls = 0
    /\ init_ret = FALSE
    /\ tunnel_ret = FALSE

NextGlobal ==
    \/ GlobalCall \/ GlobalInitialize \/ GlobalTunnelInitialize \/ GlobalShutdown
    \/ GlobalClientStep

GlobalSpec == InitGlobal /\ [][NextGlobal]_vars

(* ------------------ the handler mutex, lock by lock ------------------- *)
\* The I/O task and one application thread on handler_mutex_ alone: the I/O task
\* dispatches frames to the slots and changes the state, the application thread
\* calls setters before and after start(), and a handler may call a setter itself.

\* the states the callers of set_state pass, by the state the client is in:
\* connect(), handle_message (register_ack, register_error), disconnect()
SetStateArgs(s) ==
    CASE s = "Disconnected" -> {"Connecting"}
      [] s = "Connecting" -> {"Connected", "Disconnected"}
      [] s = "Connected" -> {"Registered", "Error", "Disconnected"}
      [] s = "Registered" -> {"Registered", "Error", "Disconnected"}
      [] OTHER -> {"Disconnected"}

\* set_state goes on to the observer whatever the old state was
Changed_always(old_state, new_state) == TRUE

\* set_state: if (old_state != new_state)
Changed(old_state, new_state) == old_state # new_state

\* a handler is being invoked, or is about to be, under the lock of its case
InHandler == io_pc \in {"h_locked", "in_handler", "st_locked", "in_state_handler", "h_setter"}

\* start(): the I/O task begins
LockStart ==
    /\ main_pc = "made" /\ ~running_
    /\ running_' = TRUE
    /\ io_launched' = io_launched + 1
    /\ io_pc' = "run"
    /\ main_pc' = "up"
    /\ UNCHANGED <<state_, assigned_host_id_, assigned_ports_, io_context_, ws_, handlers,
                   handler_mutex_, url_ok>>
    /\ UNCHANGED <<io_out, read_pending, sleep_i, snd_pc>>
    /\ UNCHANGED <<relayVars, mgrVars, seenVars, sideVars>>

\* the application calls one of the setters
AppSetterCall ==
    /\ main_pc \in {"made", "up"}
    /\ \E s \in SetterCalls : setter' = [setter EXCEPT !.app = s]
    /\ main_pc' = IF main_pc = "made" THEN "made_lock" ELSE "up_lock"
    /\ UNCHANGED set_state_call
    /\ UNCHANGED <<snd_pc, io_launched>>
    /\ UNCHANGED <<clientVars, ioVars, relayVars, mgrVars, seenVars>>
    /\ UNCHANGED <<udpVars, threadVars, fwdVars, globalVars>>

\* the setter gets the handler mutex whoever holds it
AppSetterLock_unguarded ==
    /\ main_pc \in {"made_lock", "up_lock"}
    /\ handler_mutex_' = "app"
    /\ main_pc' = IF main_pc = "made_lock" THEN "made_store" ELSE "up_store"
    /\ UNCHANGED <<running_, state_, assigned_host_id_, assigned_ports_, io_context_, ws_,
                   handlers, url_ok>>
    /\ UNCHANGED <<snd_pc, io_launched>>
    /\ UNCHANGED <<ioVars, relayVars, mgrVars, seenVars, sideVars>>

\* set_*_handler: std::lock_guard<std::mutex> lock(handler_mutex_)
AppSetterLock ==
    /\ main_pc \in {"made_lock", "up_lock"}
    /\ handler_mutex_ = "free"
    /\ handler_mutex_' = "app"
    /\ main_pc' = IF main_pc = "made_lock" THEN "made_store" ELSE "up_store"
    /\ UNCHANGED <<running_, state_, assigned_host_id_, assigned_ports_, io_context_, ws_,
                   handlers, url_ok>>
    /\ UNCHANGED <<snd_pc, io_launched>>
    /\ UNCHANGED <<ioVars, relayVars, mgrVars, seenVars, sideVars>>

\* set_*_handler: the slot is assigned and the lock released
AppSetterStore ==
    /\ main_pc \in {"made_store", "up_store"}
    /\ handlers' = [handlers EXCEPT ![setter.app.slot] = setter.app.value]
    /\ handler_mutex_' = "free"
    /\ setter' = [setter EXCEPT !.app = NoSetter]
    /\ main_pc' = IF main_pc = "made_store" THEN "made" ELSE "up"
    /\ UNCHANGED <<running_, state_, assigned_host_id_, assigned_ports_, io_context_, ws_,
                   url_ok>>
    /\ UNCHANGED set_state_call
    /\ UNCHANGED <<snd_pc, io_launched>>
    /\ UNCHANGED <<ioVars, relayVars, mgrVars, seenVars>>
    /\ UNCHANGED <<udpVars, threadVars, fwdVars, globalVars>>

\* handle_message, a case with a slot: the frame is there and the lock is taken
LockDispatch ==
    /\ io_pc = "run"
    /\ handler_mutex_ = "free"
    /\ rx' \in SlotFrames
    /\ handler_mutex_' = "io"
    /\ io_pc' = "h_locked"
    /\ UNCHANGED <<running_, state_, assigned_host_id_, assigned_ports_, io_context_, ws_,
                   handlers, url_ok>>
    /\ UNCHANGED <<io_out, read_pending, sleep_i, frames_left>>
    /\ UNCHANGED <<appVars, mgrVars, seenVars, sideVars>>

\* if (http_handler_) and its like: the handler is called, or the case ends
LockInvoke ==
    /\ io_pc = "h_locked"
    /\ IF handlers[SlotOf(parse_message_type(rx))]
       THEN /\ io_pc' = "in_handler"
            /\ UNCHANGED <<rx, handler_mutex_>>
       ELSE /\ io_pc' = "run"
            /\ rx' = NoFrame
            /\ handler_mutex_' = "free"
    /\ UNCHANGED <<running_, state_, assigned_host_id_, assigned_ports_, io_context_, ws_,
                   handlers, url_ok>>
    /\ UNCHANGED <<io_out, read_pending, sleep_i, frames_left>>
    /\ UNCHANGED <<appVars, mgrVars, seenVars, sideVars>>

\* the handler returns, send_message writes its answer, the case ends
LockHandlerReturns ==
    /\ io_pc = "in_handler"
    /\ io_pc' = "run"
    /\ rx' = NoFrame
    /\ handler_mutex_' = "free"
    /\ UNCHANGED <<running_, state_, assigned_host_id_, assigned_ports_, io_context_, ws_,
                   handlers, url_ok>>
    /\ UNCHANGED <<io_out, read_pending, sleep_i, frames_left>>
    /\ UNCHANGED <<appVars, mgrVars, seenVars, sideVars>>

\* set_state: state_.exchange(new_state), and on to the lock if the state changed
LockSetState ==
    /\ io_pc = "run"
    /\ \E new_state \in SetStateArgs(state_) :
          /\ state_' = new_state
          /\ IF Changed(state_, new_state)
             THEN /\ set_state_call' = [old |-> state_, new |-> new_state]
                  /\ io_pc' = "st_lock"
             ELSE UNCHANGED <<set_state_call, io_pc>>
    /\ UNCHANGED setter
    /\ UNCHANGED <<running_, assigned_host_id_, assigned_ports_, io_context_, ws_,
                   handlers, handler_mutex_, url_ok>>
    /\ UNCHANGED <<io_out, read_pending, sleep_i>>
    /\ UNCHANGED <<appVars, relayVars, mgrVars, seenVars>>
    /\ UNCHANGED <<udpVars, threadVars, fwdVars, globalVars>>

\* set_state: std::lock_guard<std::mutex> lock(handler_mutex_)
LockStateLock ==
    /\ io_pc = "st_lock"
    /\ handler_mutex_ = "free"
    /\ handler_mutex_' = "io"
    /\ io_pc' = "st_locked"
    /\ UNCHANGED <<running_, state_, assigned_host_id_, assigned_ports_, io_context_, ws_,
                   handlers, url_ok>>
    /\ UNCHANGED <<io_out, read_pending, sleep_i>>
    /\ UNCHANGED <<appVars, relayVars, mgrVars, seenVars, sideVars>>

\* set_state: if (state_handler_) state_handler_(old_state, new_state)
LockStateInvoke ==
    /\ io_pc = "st_locked"
    /\ IF handlers.state
       THEN /\ obs' = <<set_state_call.old, set_state_call.new>>
            /\ io_pc' = "in_state_handler"
            /\ UNCHANGED <<handler_mutex_, set_state_call>>
       ELSE /\ io_pc' = "run"
            /\ handler_mutex_' = "free"
            /\ set_state_call' = NoCall
            /\ UNCHANGED obs
    /\ UNCHANGED setter
    /\ UNCHANGED <<running_, state_, assigned_host_id_, assigned_ports_, io_context_, ws_,
                   handlers, url_ok>>
    /\ UNCHANGED <<io_out, read_pending, sleep_i>>
    /\ UNCHANGED <<last_reg_ports, last_setup, answered, crashed>>
    /\ UNCHANGED <<appVars, relayVars, mgrVars>>
    /\ UNCHANGED <<udpVars, threadVars, fwdVars, globalVars>>

\* the state-change handler returns and set_state with it
LockStateReturns ==
    /\ io_pc = "in_state_handler"
    /\ io_pc' = "run"
    /\ handler_mutex_' = "free"
    /\ set_state_call' = NoCall
    /\ UNCHANGED setter
    /\ UNCHANGED <<running_, state_, assigned_host_id_, assigned_ports_, io_context_, ws_,
                   handlers, url_ok>>
    /\ UNCHANGED <<io_out, read_pending, sleep_i>>
    /\ UNCHANGED <<appVars, relayVars, mgrVars, seenVars>>
    /\ UNCHANGED <<udpVars, threadVars, fwdVars, globalVars>>

\* the handler that is running calls a setter of its client: the I/O task locks
\* handler_mutex_, a std::mutex it owns already
HandlerCallsSetter ==
    /\ io_pc \in {"in_handler", "in_state_handler"}
    /\ \E s \in SetterCalls : setter' = [setter EXCEPT !.io = s]
    /\ io_pc' = "h_setter"
    /\ UNCHANGED set_state_call
    /\ UNCHANGED <<io_out, read_pending, sleep_i>>
    /\ UNCHANGED <<clientVars, appVars, relayVars, mgrVars, seenVars>>
    /\ UNCHANGED <<udpVars, threadVars, fwdVars, globalVars>>

\* locking a std::mutex the thread owns is undefined: the lock either never returns,
\* and then the I/O task takes no step from here, or it throws std::system_error,
\* which unwinds the handler and its case and is caught in run_io_context
SetterThrows ==
    /\ io_pc = "h_setter"
    /\ io_pc' = "run"
    /\ rx' = NoFrame
    /\ handler_mutex_' = "free"
    /\ setter' = [setter EXCEPT !.io = NoSetter]
    /\ set_state_call' = NoCall
    /\ UNCHANGED <<running_, state_, assigned_host_id_, assigned_ports_, io_context_, ws_,
                   handlers, url_ok>>
    /\ UNCHANGED <<io_out, read_pending, sleep_i, frames_left>>
    /\ UNCHANGED <<appVars, mgrVars, seenVars>>
    /\ UNCHANGED <<udpVars, threadVars, fwdVars, globalVars>>

\* a client that was constructed and not started
InitLock ==
    /\ running_ = FALSE
    /\ state_ = "Disconnected"
    /\ assigned_host_id_ = ""
    /\ assigned_ports_ = ZeroPorts
    /\ io_context_ = "null"
    /\ ws_ = "null"
    /\ handlers = [http |-> FALSE, rtsp |-> FALSE, udp |-> FALSE, state |-> FALSE]
    /\ handler_mutex_ = "free"
    /\ url_ok = TRUE
    /\ io_pc = "none"
    /\ io_out = NoMsg
    /\ read_pending = FALSE
    /\ sleep_i = 0
    /\ main_pc = "made"
    /\ snd_pc = "idle"
    /\ io_launched = 0
    /\ rx = NoFrame
    /\ frames_left = MaxFrames
    /\ mgr_running = FALSE
    /\ mgr_ports = [video |-> 0, audio |-> 0, control |-> 0]
    /\ mgr_io = FALSE
    /\ channels_ = [t \in UdpChannelType |-> NoChannel]
    /\ sockets = [t \in UdpChannelType |-> 0]
    /\ forwarders = [t \in UdpChannelType |-> 0]
    /\ obs = <<"", "">>
    /\ last_reg_ports = ZeroPorts
    /\ last_setup = "none"
    /\ answered = {}
    /\ crashed = FALSE
    /\ relay_addr = RemoteAddr
    /\ udp_in = NoDatagram
    /\ udp_out = NoDatagram
    /\ mutex_ = "free"
    /\ fw_pc = [t \in UdpChannelType |-> "none"]
    /\ close_wakes = FALSE
    /\ fwd_req = NoRequest
    /\ fwd_local = NoLocal
    /\ fwd_sent = NothingSent
    /\ fwd_resp = NoResponse
    /\ set_state_call = NoCall
    /\ setter = NoSetters
    /\ cfg = GoodConfig
    /\ g_client = TRUE
    /\ init_calls = 1
    /\ init_ret = TRUE
    /\ tunnel_ret = FALSE

\* the steps of the I/O task that the code takes by itself
LockIOThread ==
    \/ LockDispatch \/ LockInvoke \/ LockHandlerReturns
    \/ LockSetState \/ LockStateLock \/ LockStateInvoke \/ LockStateReturns
    \/ HandlerCallsSetter

LockAppThread == LockStart \/ AppSetterCall \/ AppSetterLock \/ AppSetterStore

NextLock == LockIOThread \/ SetterThrows \/ LockAppThread

LockSpec == InitLock /\ [][NextLock]_vars

\* each thread that can take a step takes one; a lock that never returns is not
\* made to throw
FairLockSpec == LockSpec /\ WF_vars(LockIOThread) /\ WF_vars(LockAppThread)

(* ---------------- set_state in the I/O task and in stop() -------------- *)
\* The I/O task of the handler-mutex specification, with the state observer installed
\* before start() and left alone, and the application thread going on to stop().

\* stop(): running_ = false; io_context_->stop()
LockStop ==
    /\ main_pc = "up"
    /\ running_' = FALSE
    /\ main_pc' = "stop_join"
    /\ UNCHANGED <<state_, assigned_host_id_, assigned_ports_, io_context_, ws_, handlers,
                   handler_mutex_, url_ok>>
    /\ UNCHANGED <<snd_pc, io_launched>>
    /\ UNCHANGED <<ioVars, relayVars, mgrVars, seenVars, sideVars>>

\* run_io_context: disconnect() has set Disconnected and while (running_) ends
LockExit ==
    /\ io_pc = "run" /\ ~running_ /\ state_ = "Disconnected"
    /\ io_pc' = "exited"
    /\ UNCHANGED <<io_out, read_pending, sleep_i>>
    /\ UNCHANGED <<clientVars, appVars, relayVars, mgrVars, seenVars, sideVars>>

\* a stop() that goes on without waiting for the I/O task
LockStopJoin_nowait ==
    /\ main_pc = "stop_join"
    /\ main_pc' = "stop_state"
    /\ UNCHANGED <<snd_pc, io_launched>>
    /\ UNCHANGED <<clientVars, ioVars, relayVars, mgrVars, seenVars, sideVars>>

\* stop(): io_thread_->join()
LockStopJoin ==
    /\ main_pc = "stop_join"
    /\ io_pc = "exited"
    /\ main_pc' = "stop_state"
    /\ UNCHANGED <<snd_pc, io_launched>>
    /\ UNCHANGED <<clientVars, ioVars, relayVars, mgrVars, seenVars, sideVars>>

\* stop(): set_state(Disconnected), the notification under the handler mutex
LockStopState ==
    /\ main_pc = "stop_state"
    /\ handler_mutex_ = "free"
    /\ set_state("Disconnected")
    /\ main_pc' = "stopped"
    /\ UNCHANGED <<running_, assigned_host_id_, assigned_ports_, io_context_, ws_, handlers,
                   handler_mutex_, url_ok>>
    /\ UNCHANGED <<snd_pc, io_launched>>
    /\ UNCHANGED <<last_reg_ports, last_setup, answered, crashed>>
    /\ UNCHANGED <<ioVars, relayVars, mgrVars, sideVars>>

\* a client that was constructed and given its state observer, with or without the
\* other handlers, and not started
InitChain ==
    /\ running_ = FALSE
    /\ state_ = "Disconnected"
    /\ assigned_host_id_ = ""
    /\ assigned_ports_ = ZeroPorts
    /\ io_context_ = "null"
    /\ ws_ = "null"
    /\ handlers \in { [http |-> h, rtsp |-> r, udp |-> u, state |-> TRUE] :
                       h \in BOOLEAN, r \in BOOLEAN, u \in BOOLEAN }
    /\ handler_mutex_ = "free"
    /\ url_ok = TRUE
    /\ io_pc = "none"
    /\ io_out = NoMsg
    /\ read_pending = FALSE
    /\ sleep_i = 0
    /\ main_pc = "made"
    /\ snd_pc = "idle"
    /\ io_launched = 0
    /\ rx = NoFrame
    /\ frames_left = MaxFrames
    /\ mgr_running = FALSE
    /\ mgr_ports = [video |-> 0, audio |-> 0, control |-> 0]
    /\ mgr_io = FALSE
    /\ channels_ = [t \in UdpChannelType |-> NoChannel]
    /\ sockets = [t \in UdpChannelType |-> 0]
    /\ forwarders = [t \in UdpChannelType |-> 0]
    /\ obs = <<"", "">>
    /\ last_reg_ports = ZeroPorts
    /\ last_setup = "none"
    /\ answered = {}
    /\ crashed = FALSE
    /\ relay_addr = RemoteAddr
    /\ udp_in = NoDatagram
    /\ udp_out = NoDatagram
    /\ mutex_ = "free"
    /\ fw_pc = [t \in UdpChannelType |-> "none"]
    /\ close_wakes = FALSE
    /\ fwd_req = NoRequest
    /\ fwd_local = NoLocal
    /\ fwd_sent = NothingSent
    /\ fwd_resp = NoResponse
    /\ set_state_call = NoCall
    /\ setter = NoSetters
    /\ cfg = GoodConfig
    /\ g_client = TRUE
    /\ init_calls = 1
    /\ init_ret = TRUE
    /\ tunnel_ret = FALSE

NextChain ==
    \/ LockStart \/ LockStop \/ LockStopJoin \/ LockStopState
    \/ LockDispatch \/ LockInvoke \/ LockHandlerReturns
    \/ LockSetState \/ LockStateLock \/ LockStateInvoke \/ LockStateReturns
    \/ LockExit

ChainSpec == InitChain /\ [][NextChain]_vars

(* ------------------------------ properties ---------------------------- *)
\* the read-loop of one connection: io_context_->run() and the handlers it calls
InReadLoop == io_pc \in {"run", "send_write"}

\* the step in which the I/O task dispatches the register_ack held in rx
RegisterAckStep == Dispatch("register_ack") /\ rx' = NoFrame

\* the step in which the I/O task hands the udp_channel_setup held in rx to the
\* installed handler
SetupStep == Dispatch("udp_channel_setup") /\ handlers.udp /\ rx' = NoFrame

\* a write on the open stream completes in this step
WriteCompletes ==
    \/ snd_pc = "write" /\ snd_pc' = "idle" /\ ws_ = "open"
    \/ io_pc \in {"reg_write", "send_write"} /\ io_pc' # io_pc /\ ws_ = "open"

\* C1: in every reachable state, state Registered implies a non-empty assigned host
\* id and an assigned http port above 0, for every register_ack the relay can send
\* and at every step of disconnect.
C1_RegisteredHasIdentity ==
    state_ = "Registered" => assigned_host_id_ # "" /\ assigned_ports_.http > 0

\* C2: every write to the control channel, by the I/O task or by send_session_end,
\* completes in state Connected or Registered; none in Disconnected, Connecting or
\* Error.
C2_WritesOnlyWhenConnected ==
    [][WriteCompletes => state_ \in {"Connected", "Registered"}]_vars

\* C3: whenever the UDP manager holds a channel record the client is Registered
\* and running_ is true.
C3_RecordsOnlyWhileRegistered ==
    (\E t \in UdpChannelType : channels_[t].present) =>
        state_ = "Registered" /\ running_

\* C4: every call to stop() eventually returns, whatever the I/O task is doing when
\* it is called (the process ending in a fault is not counted against it here).
C4_StopReturns == (main_pc = "chk") ~> (main_pc = "done" \/ crashed)

\* C5: writes to the control channel are serialized: never two writes in progress
\* at once, and no write in progress on a stream the I/O task has torn down.
C5_WritesSerialized ==
    /\ Cardinality(Writing) <= 1
    /\ ~(snd_pc = "write" /\ ws_ = "null")

\* C6, as stated: a register_ack(h, p) dispatched in state Connected makes the state
\* Registered, is_ready() true, get_host_id() = h and get_ports() = p, and host id
\* and ports stay so for as long as the connection's read-loop goes on.
C6_AckValuesUntilEpochEnd ==
    [][ /\ RegisterAckStep /\ state_ = "Connected" =>
              /\ state_' = "Registered" /\ is_ready'
              /\ get_host_id' = rx.host_id /\ get_ports' = rx.ports
        /\ state_ = "Registered" /\ InReadLoop /\ InReadLoop' =>
              UNCHANGED <<assigned_host_id_, assigned_ports_>> ]_vars

\* C6, amended: every register_ack(h, p) dispatched makes the state Registered,
\* is_ready() true, get_host_id() = h and get_ports() = p; while the read-loop goes
\* on, host id and ports change only when a further register_ack is dispatched,
\* which replaces them with its own.
C6_AckValuesUntilNextAck ==
    [][ /\ RegisterAckStep =>
              /\ state_' = "Registered" /\ is_ready'
              /\ get_host_id' = rx.host_id /\ get_ports' = rx.ports
        /\ state_ = "Registered" /\ InReadLoop /\ InReadLoop' /\ ~RegisterAckStep =>
              UNCHANGED <<assigned_host_id_, assigned_ports_>> ]_vars

\* C6 witness: registered as h1 with the first input's ports, then in the same
\* connection a second register_ack has replaced them with h2's.
C6_SecondAckReplaced ==
    /\ state_ = "Registered" /\ is_ready /\ InReadLoop
    /\ obs = <<"Connected", "Registered">>
    /\ last_reg_ports = Ports1
    /\ get_host_id = "h2" /\ get_ports = Ports2

\* C7: if the relay closes the control socket while the client is running, the
\* client eventually enters Connecting again.
C7_ReconnectsAfterClose ==
    (rx = CloseMark /\ running_) ~> (state_ = "Connecting" \/ ~running_)

\* C8: every udp_channel_ack with non-zero ports for a channel type T carries as
\* relay_port the port for T of the register_ack that most recently moved the client
\* to Registered.
C8_AckRelayPortIsRegistered ==
    (io_pc = "send_write" /\ io_out.type = "udp_channel_ack"
        /\ io_out.relay_port # 0 /\ io_out.local_port # 0) =>
    io_out.relay_port = RelayPortOf(last_reg_ports, channel_type_from_string(io_out.channel))

\* C9: at most one record, socket and forwarder per channel type, a record exactly
\* where a socket is, and a setup for a type that has a record is answered with the
\* record's local_port and relay_port and creates nothing.
C9_SetupIdempotent ==
    [][ /\ \A t \in UdpChannelType :
              /\ sockets'[t] <= 1 /\ forwarders'[t] <= 1
              /\ channels_'[t].present <=> sockets'[t] = 1
              /\ channels_'[t].present <=> forwarders'[t] = 1
        /\ \A t \in UdpChannelType :
              (SetupStep /\ channel_type_from_string(rx.channel) = t /\ channels_[t].present) =>
                  /\ io_out'.type = "udp_channel_ack"
                  /\ io_out'.local_port = channels_[t].local_port
                  /\ io_out'.relay_port = channels_[t].relay_port
                  /\ UNCHANGED <<channels_, sockets, forwarders>> ]_vars

\* C9 witness: a setup for a type that already had a record is being answered with
\* that record's ports
C9_SecondSetupAnswered ==
    /\ io_pc = "send_write" /\ last_setup = "existed"
    /\ \E t \in UdpChannelType :
          /\ io_out.channel = channel_type_string(t)
          /\ channels_[t].present /\ sockets[t] = 1
          /\ io_out.local_port = channels_[t].local_port /\ io_out.local_port # 0
          /\ io_out.relay_port = channels_[t].relay_port /\ io_out.relay_port # 0

\* C10: a udp_channel_setup whose channel is none of video, audio, control is
\* answered with relay_port 0 and local_port 0 and creates no record, socket or
\* forwarder.
C10_UnknownChannelRefused ==
    [][ (SetupStep /\ rx.channel \notin {"video", "audio", "control"}) =>
            /\ io_out'.relay_port = 0 /\ io_out'.local_port = 0
            /\ UNCHANGED <<channels_, sockets, forwarders>> ]_vars

\* the step in which the I/O task takes the http_request or rtsp_request held in rx
\* while the handler for it is installed
RequestStep(type) == Dispatch(type) /\ handlers[SlotOf(type)] /\ rx' = NoFrame

ResponseType(type) == IF type = "http_request" THEN "http_response" ELSE "rtsp_response"

\* the step in which the I/O task dispatches the ping held in rx
PingStep == Dispatch("ping") /\ rx.complete /\ rx' = NoFrame

\* the step in which the I/O task drops the frame held in rx as Unknown
UnknownStep ==
    /\ Delivered /\ rx # CloseMark /\ parse_message_type(rx) = "unknown"
    /\ rx' = NoFrame

\* stop() has returned
Stopped == main_pc \in {"done", "done2", "udp_shutdown", "finished"}

\* a forwarder sends on the datagram it holds
ForwardStep == udp_in # NoDatagram /\ udp_in' = NoDatagram

\* C11, as stated: every http_request (rtsp_request) frame dispatched while its
\* handler is installed starts the write of one http_response (rtsp_response) with the
\* request's id, and no (type, id) is answered twice in one connection.
C11_OneResponsePerId ==
    [][ \A type \in {"http_request", "rtsp_request"} :
           RequestStep(type) =>
              /\ io_pc' = "send_write"
              /\ io_out'.type = ResponseType(type) /\ io_out'.id = rx.id
              /\ <<type, rx.id>> \notin answered ]_vars

\* C12: every ping with timestamp ts that the read-loop dispatches starts the write
\* of one pong with the same ts and changes neither the connection state nor the
\* assigned host id and ports; pongs are written for no other reason.
C12_PingEcho ==
    [][ /\ PingStep =>
              /\ io_pc' = "send_write"
              /\ io_out'.type = "pong" /\ io_out'.ts = rx.ts
              /\ UNCHANGED <<state_, obs, assigned_host_id_, assigned_ports_>>
        /\ (io_out' # io_out /\ io_out'.type = "pong") => PingStep ]_vars

\* C12 witness: while Registered, the pong for the ping with ts 42 is being written
C12_PongBeingWritten ==
    /\ state_ = "Registered" /\ io_pc = "send_write"
    /\ io_out.type = "pong" /\ io_out.ts = 42

\* C13: a frame that is not JSON, has no type, or has a type outside the known set
\* is reported as Unknown, and dropping it changes neither the connection state nor
\* the assigned state, writes nothing, invokes no handler and leaves the I/O task in
\* the read-loop, which posts the next read while the client is running.
C13_UnknownDropped ==
    [][ /\ \A f \in UnknownFrames : parse_message_type(f) = "unknown"
        /\ UnknownStep =>
              /\ UNCHANGED <<state_, obs, assigned_host_id_, assigned_ports_>>
              /\ UNCHANGED <<io_out, io_pc, io_context_, ws_, handler_mutex_>>
              /\ UNCHANGED <<mgrVars, last_setup, answered>>
              /\ read_pending' = running_ ]_vars

\* C13 witness: a registered client is about to dispatch a frame that is not JSON
C13_TextFrameDelivered ==
    /\ state_ = "Registered" /\ Delivered /\ running_
    /\ rx.form = "text"

\* C14: once stop() has returned the state is Disconnected, host id and ports are
\* cleared and the I/O task has ended; from then on no state change, notification or
\* write happens, also not by a second stop().
C14_StoppedStaysStopped ==
    [][ /\ Stopped' =>
              /\ state_' = "Disconnected" /\ get_host_id' = "" /\ get_ports' = ZeroPorts
              /\ io_pc' = "exited" /\ ~running_'
        /\ Stopped =>
              /\ Stopped'
              /\ UNCHANGED <<state_, obs, assigned_host_id_, assigned_ports_, io_pc, running_>>
              /\ ~WriteCompletes ]_vars

\* C14 witness: a client that was registered has been stopped twice
C14_StoppedTwice ==
    /\ main_pc = "done2" /\ obs = <<"Registered", "Disconnected">>
    /\ state_ = "Disconnected"

\* C15: whatever start() calls have been made, at most one I/O task has been
\* launched, and exactly one once a start() has returned.
C15_OneTaskLaunched ==
    /\ io_launched <= 1
    /\ main_pc \notin {"init", "made", "launch"} => io_launched = 1

\* C16: after a register_error has set the state to Error, a running client
\* eventually enters Connecting again.
C16_RegisterErrorRecovers ==
    (state_ = "Error" /\ InReadLoop /\ running_) ~> (state_ = "Connecting" \/ ~running_)

\* C17: with a server_url that does not parse, the state only moves Disconnected ->
\* Connecting -> Error -> Disconnected, no stream or I/O context is created, nothing
\* is written, and the I/O task ends only after stop() has cleared running_.
C17_BadUrlLoops ==
    [][ ~url_ok =>
           /\ state_' \notin {"Connected", "Registered"}
           /\ ws_' = "null" /\ io_context_' = "null" /\ io_out' = NoMsg
           /\ ~WriteCompletes
           /\ state_' # state_ =>
                 <<state_, state_'>> \in { <<"Disconnected", "Connecting">>,
                                           <<"Connecting", "Error">>,
                                           <<"Error", "Disconnected">> }
           /\ io_pc' = "exited" => ~running_' ]_vars

\* C17 witness: after a failed parse the client has waited the whole reconnect
\* interval and is about to try again
C17_BadUrlWaited ==
    /\ ~url_ok /\ running_ /\ obs = <<"Error", "Disconnected">>
    /\ io_pc = "sleep" /\ sleep_i = reconnect_interval_seconds_

\* C18: while the UDP manager is not running, handle_channel_setup returns for every
\* request an ack with the request's session_id and channel and both ports 0, and
\* creates nothing.
C18_NotRunningRefuses ==
    ~mgr_running =>
        \A f \in UdpSetupFrames :
            LET setup == UdpChannelSetupMessage_from_json(f)
            IN \A o \in handle_channel_setup(setup) :
                  /\ o.ack.session_id = f.session_id /\ o.ack.channel = setup.channel
                  /\ o.ack.relay_port = 0 /\ o.ack.local_port = 0
                  /\ ~o.created /\ o.record = channels_[setup.channel]

\* C18 witness: a setup dispatched before the first register_ack is being answered
\* with zero ports
C18_RefusedBeforeRegistered ==
    /\ ~mgr_running /\ state_ = "Connected"
    /\ io_pc = "send_write" /\ last_setup = "refused"
    /\ io_out.type = "udp_channel_ack" /\ io_out.relay_port = 0 /\ io_out.local_port = 0
    /\ \A t \in UdpChannelType : ~channels_[t].present /\ sockets[t] = 0

\* C19: when creating the channel fails in a running manager, the ack has both ports
\* 0, no record, socket or forwarder is left for the type, and a later setup for the
\* type can create the channel.
C19_FailedCreationLeavesNothing ==
    [][ (SetupStep /\ mgr_running /\ last_setup' = "refused") =>
           LET setup == UdpChannelSetupMessage_from_json(rx)
           IN /\ io_out'.type = "udp_channel_ack"
              /\ io_out'.relay_port = 0 /\ io_out'.local_port = 0
              /\ UNCHANGED <<channels_, sockets, forwarders, mgr_running>>
              /\ ~channels_'[setup.channel].present
              /\ sockets'[setup.channel] = 0 /\ forwarders'[setup.channel] = 0
              /\ \E o \in handle_channel_setup(setup) : o.created ]_vars

\* C19 witness: in a running manager a setup is being answered with zero ports
C19_CreationFailed ==
    /\ mgr_running /\ io_pc = "send_write" /\ last_setup = "refused"
    /\ io_out.type = "udp_channel_ack" /\ io_out.relay_port = 0 /\ io_out.local_port = 0

\* C20: a datagram from the relay's address is sent on unchanged to 127.0.0.1 at base
\* port + 8 (control), + 9 (video), + 10 (audio); any other datagram is sent on unchanged
\* to the relay endpoint, in particular one that comes from 127.0.0.1.
C20_DirectionalSteering ==
    [][ ForwardStep =>
           LET t == udp_in.channel
               offset == CASE t = "Control" -> 8 [] t = "Video" -> 9 [] OTHER -> 10
           IN /\ udp_out'.payload = udp_in.payload
              /\ udp_in.addr = relay_addr =>
                    udp_out'.addr = Loopback /\ udp_out'.port = BasePort + offset
              /\ udp_in.addr # relay_addr =>
                    udp_out'.addr = relay_addr /\ udp_out'.port = channels_[t].relay_port
              /\ udp_in.addr = Loopback =>
                    udp_out'.addr = relay_addr /\ udp_out'.port = channels_[t].relay_port
      ]_vars

\* ChannelManager::shutdown() returns in this step
MgrShutdownReturns == main_pc = "sd_loop" /\ main_pc' = "sd_done"

\* ChannelManager::shutdown() has begun and not returned
MgrShuttingDown == main_pc \in {"sd_lock", "sd_loop", "sd_join"}

\* C21: when ChannelManager::shutdown() returns, the manager is not running, the
\* record map is empty, every socket is closed and every forwarder has been joined,
\* and a handle_channel_setup that follows returns zero ports.
C21_ShutdownLeavesNothing ==
    [][ MgrShutdownReturns =>
           /\ ~mgr_running'
           /\ \A t \in UdpChannelType :
                 /\ ~channels_'[t].present
                 /\ sockets'[t] = 0 /\ forwarders'[t] = 0 /\ fw_pc'[t] = "none"
           /\ \A f \in UdpSetupFrames :
                 \A o \in handle_channel_setup(UdpChannelSetupMessage_from_json(f))' :
                    o.ack.relay_port = 0 /\ o.ack.local_port = 0 /\ ~o.created ]_vars

\* C26: every ChannelManager::shutdown() that has begun returns, unless the process
\* has ended before.
C26_ShutdownTerminates == MgrShuttingDown ~> (main_pc = "sd_done" \/ crashed)

\* C27: a handle_channel_setup that holds mutex_ and has to make a socket finds the
\* I/O context in place, and while the manager is not running and no shutdown() is in
\* progress the record map is empty.
C27_SetupSafeAgainstShutdown ==
    /\ (io_pc = "su_body" /\ SetupCreates) => mgr_io
    /\ (~mgr_running /\ ~MgrShuttingDown) => \A t \in UdpChannelType : ~channels_[t].present

\* the write of send_session_end is not a defined one: the stream is gone, or the I/O
\* task is writing on it too
SessionEndRaces == snd_pc = "write" /\ (ws_ = "null" \/ "io" \in Writing)

\* C22: a send_session_end call writes its one frame on a stream that exists and that
\* nobody else is writing on, or writes nothing; it is never the call in which the
\* process ends; and its steps leave the connection state, the observer and the
\* assigned host id and ports as they are.
C22_SessionEndHarmless ==
    [][ /\ (snd_pc = "write" /\ snd_pc' = "idle") => ~SessionEndRaces
        /\ (~crashed /\ crashed') => ~SessionEndRaces
        /\ snd_pc' # snd_pc =>
              UNCHANGED <<state_, obs, assigned_host_id_, assigned_ports_>> ]_vars

\* tunnel::handle_http_request has returned its response
HttpHandled == fwd_resp # NoResponse

C24_ProxyFidelity ==
    (HttpHandled /\ fwd_local \in LocalAnswers) =>
        LET req == fwd_req
            h == fwd_sent.headers
            n == Len(h)
            k == IF req.body = << >> THEN 0 ELSE 1
            kept == req.headers \ {"CONNECTION", "Host", "Transfer-Encoding", "host"}
            middle == 2..(n - k - 3)
        IN /\ fwd_sent.line[1] = req.method
           /\ fwd_sent.line[2] = IF req.query = "" THEN <<req.path>>
                                 ELSE <<req.path, "?", req.query>>
           /\ fwd_sent.line[3] = "HTTP/1.1"
           /\ h[1] = [name |-> "Host",
                      value |-> <<"127.0.0.1", IF req.is_https THEN 47984 ELSE 47989>>]
           /\ { h[i].name : i \in middle } = kept
           /\ Cardinality(middle) = Cardinality(kept)
           /\ \A i \in middle : h[i].value = IngressValue(h[i].name)
           /\ h[n - k - 2] = [name |-> "X-Forwarded-For", value |-> req.client_addr]
           /\ h[n - k - 1] = [name |-> "X-Starbeam-Client", value |-> req.client_addr]
           /\ k = 1 => h[n - 1] = [name |-> "Content-Length", value |-> Len(req.body)]
           /\ Cardinality({ i \in 1..n : h[i].name = "Content-Length" }) = k
           /\ h[n] = [name |-> "Connection", value |-> "close"]
           /\ fwd_sent.body = req.body
           /\ fwd_resp.id = req.id
           /\ fwd_resp.status = fwd_local.status
           /\ fwd_resp.headers = IF fwd_local.type_name = "" THEN {}
                                 ELSE {[name |-> "Content-Type", value |-> fwd_local.type]}
           /\ fwd_resp.body = fwd_local.body

\* C24 witness: a POST with a query, a body and the headers Accept, CONNECTION and
\* host has been forwarded and answered with 404, CONTENT-TYPE given in capitals
C24_PostForwarded ==
    /\ HttpHandled
    /\ fwd_req.method = "POST" /\ fwd_req.query = "a=1" /\ fwd_req.body = Text("hi")
    /\ fwd_req.headers = {"Accept", "CONNECTION", "host"}
    /\ Len(fwd_sent.headers) = 6
    /\ fwd_local.type_name = "CONTENT-TYPE" /\ fwd_local.body = Text("hi")
    /\ fwd_resp.status = 404 /\ fwd_resp.body = Text("hi")

\* starbeam::initialize() returns in this step
InitializeReturns == main_pc = "g_initialize" /\ main_pc' = "g_idle"

\* C25: starbeam::initialize() called without a client makes and starts one exactly
\* when the agent is enabled and server_url and auth_key are non-empty, and returns
\* true then; otherwise it returns false and there is no client afterwards, so that
\* tunnel::initialize() fails and tunnel::is_active() is false.  Called with a client
\* present it returns true and neither makes nor starts another one.
C25_InitializeGuards ==
    [][ /\ InitializeReturns =>
              LET configured == cfg.enabled /\ cfg.server_url # "" /\ cfg.auth_key # ""
              IN /\ (~g_client /\ configured) =>
                       /\ init_ret' /\ g_client' /\ running_'
                       /\ io_launched' = io_launched + 1
                 /\ (~g_client /\ ~configured) =>
                       /\ ~init_ret' /\ ~g_client' /\ ~is_active'
                       /\ io_launched' = io_launched /\ ~running_'
                 /\ g_client =>
                       /\ init_ret' /\ g_client'
                       /\ io_launched' = io_launched
        /\ (main_pc = "g_tunnel" /\ main_pc' = "g_idle") => (tunnel_ret' = g_client)
        /\ ~g_client' => ~is_active' ]_vars

\* C25 witness: initialize() has returned true twice and one client has been started
C25_SecondCallKeepsClient ==
    /\ init_calls = 2 /\ init_ret /\ g_client /\ io_launched = 1
    /\ main_pc = "g_idle"

\* C28: a setter called from inside a handler the I/O task is running returns, with
\* the handler it was given installed, and the I/O task goes on.
C28_ReentrantSetterReturns ==
    \A s \in SetterCalls :
        (io_pc = "h_setter" /\ setter.io = s)
            ~> (io_pc \in {"in_handler", "in_state_handler", "run"} /\ handlers[s.slot] = s.value
                /\ setter.io = NoSetter)

\* the I/O task leaves this pc in the step
IoLeaves(pc) == io_pc = pc /\ io_pc' # pc

\* C29: set_state stores the new state in one step; exactly when the state it
\* replaced differs and a handler is installed at the notification, that handler is
\* invoked once, with the replaced state and the new one; a set_state to the
\* current state goes to no handler.
C29_NotifiedExactlyOnChange ==
    [][ /\ state_' # state_ =>
              /\ io_pc = "run" /\ io_pc' = "st_lock"
              /\ set_state_call' = [old |-> state_, new |-> state_']
        /\ (io_pc # "st_lock" /\ io_pc' = "st_lock") => state_' # state_
        /\ (io_pc # "st_locked" /\ io_pc' = "st_locked") =>
              /\ io_pc = "st_lock"
              /\ set_state_call.new = state_ /\ set_state_call.old # state_
        /\ IoLeaves("st_locked") =>
              IF handlers.state
              THEN /\ io_pc' = "in_state_handler"
                   /\ obs' = <<set_state_call.old, state_>>
              ELSE io_pc' = "run" /\ obs' = obs
        /\ (io_pc # "in_state_handler" /\ io_pc' = "in_state_handler") => io_pc = "st_locked"
        /\ obs' # obs => io_pc' = "in_state_handler" ]_vars

\* C29 witness: the observer is being told that the client registered
C29_ObserverTold ==
    /\ io_pc = "in_state_handler" /\ obs = <<"Connected", "Registered">>
    /\ state_ = "Registered"

\* C30: a slot is assigned only by a setter that holds the handler mutex, never
\* during a handler invocation; the I/O task holds the mutex for the whole of every
\* invocation; and a dispatched frame goes to the handler exactly when the slot, as
\* the last setter to return left it, is non-empty.
C30_SlotsUnderMutex ==
    [][ /\ handlers' # handlers =>
              /\ handler_mutex_ = "app" /\ ~InHandler
              /\ handlers' = [handlers EXCEPT ![setter.app.slot] = setter.app.value]
        /\ InHandler' => handler_mutex_' = "io"
        /\ IoLeaves("h_locked") =>
              (io_pc' = "in_handler") = handlers[SlotOf(parse_message_type(rx))] ]_vars

\* C30 witness: a setter called after start() waits while a handler it installed
\* before start() is running
C30_SetterWaitsForHandler ==
    /\ io_pc = "in_handler" /\ main_pc = "up_lock" /\ running_
    /\ handler_mutex_ = "io"

\* C31: whenever the state is Disconnected the assigned host id is empty and the six
\* assigned ports are 0, and so they are at every notification of a transition to
\* Disconnected, however the connection ended.
C31_DisconnectedHasNothingAssigned ==
    [][ /\ state_' = "Disconnected" =>
              assigned_host_id_' = "" /\ assigned_ports_' = ZeroPorts
        /\ (obs' # obs /\ obs'[2] = "Disconnected") =>
              assigned_host_id_' = "" /\ assigned_ports_' = ZeroPorts ]_vars

\* C31 witness: a registered client has been disconnected and its observer told
C31_RegisteredThenDisconnected ==
    /\ state_ = "Disconnected" /\ obs = <<"Registered", "Disconnected">>
    /\ last_reg_ports = Ports1 /\ assigned_ports_ = ZeroPorts

\* the edges of the connection state machine
StateEdges ==
    { <<"Disconnected", "Connecting">>,
      <<"Connecting", "Connected">>, <<"Connecting", "Error">>,
      <<"Connecting", "Disconnected">>,
      <<"Connected", "Registered">>, <<"Connected", "Error">>,
      <<"Connected", "Disconnected">>,
      <<"Registered", "Error">>, <<"Registered", "Disconnected">>,
      <<"Error", "Disconnected">> }

\* C36: the connection state changes only along the edges of StateEdges; Registered
\* is entered only from Connected, and Error is left only for Disconnected.
C36_StateEdges ==
    [][ state_' # state_ => <<state_, state_'>> \in StateEdges ]_vars

\* C36 witness: a register_ack has arrived behind the register_error that moved the
\* client to Error
C36_AckBehindError ==
    /\ state_ = "Error" /\ io_context_ = "stopped"
    /\ rx \in RegisterAckFrames

\* C32: in each connection epoch the register message is written once, in state
\* Connected and before the first read is posted, and nothing is written on the
\* epoch's stream before it: no send_session_end write completes on the open stream
\* while the register message is still to be written.
C32_RegisterWrittenFirst ==
    [][ /\ (io_pc # "reg_write" /\ io_pc' = "reg_write") =>
              /\ state_ = "Connected" /\ ~read_pending
              /\ io_out' = RegisterMessage_to_json
        /\ (io_out' = RegisterMessage_to_json /\ io_out # io_out') => io_pc = "register"
        /\ (snd_pc = "write" /\ snd_pc' = "idle" /\ ws_ = "open") =>
              io_pc \notin {"connected", "register", "reg_write"} ]_vars

\* the read handler takes the frame held in rx in this step
FrameRead == io_pc \in {"run", "send_write"} /\ rx \notin {NoFrame, CloseMark} /\ rx' = NoFrame

\* the type of the message the read-loop writes for a frame of this type
AnswerType(type) ==
    CASE type = "http_request" -> "http_response"
      [] type = "rtsp_request" -> "rtsp_response"
      [] type = "udp_channel_setup" -> "udp_channel_ack"
      [] type = "ping" -> "pong"
      [] OTHER -> ""

\* C33: the read-loop takes a frame only when no handler is running and no response
\* is being written, and every response, ack or pong it starts to write is the answer
\* to the frame taken in that very step; so the answers are written in the order of
\* the frames, and a ping that arrives during a handler waits for that handler's write.
C33_OneFrameAtATime ==
    [][ /\ FrameRead =>
              /\ io_pc = "run" /\ io_out = NoMsg
              /\ handler_mutex_ = "free"
        /\ (io_pc' = "send_write" /\ io_pc # "send_write") =>
              /\ FrameRead
              /\ io_out'.type = AnswerType(parse_message_type(rx)) ]_vars

\* C33 witness: a ping has arrived while the response to an http_request is being
\* written
C33_PingWaitsForResponse ==
    /\ io_pc = "send_write" /\ io_out.type = "http_response"
    /\ parse_message_type(rx) = "ping"

\* the step in which the I/O task dispatches the error frame held in rx
ErrorStep == Dispatch("error") /\ rx.complete /\ rx' = NoFrame

\* C34: an error frame with code and message changes neither the connection state nor
\* the assigned state, tells the observer nothing, writes nothing, invokes no handler
\* and leaves the I/O task in the read-loop, which posts the next read while the
\* client is running.
C34_ErrorFrameChangesNothing ==
    [][ ErrorStep =>
           /\ UNCHANGED <<state_, obs, assigned_host_id_, assigned_ports_>>
           /\ UNCHANGED <<io_out, io_pc, io_context_, ws_, handler_mutex_, handlers>>
           /\ UNCHANGED <<mgrVars, last_setup, answered>>
           /\ read_pending' = running_ ]_vars

\* C34 witness: a registered, running client is about to dispatch an error frame
C34_ErrorFrameDelivered ==
    /\ state_ = "Registered" /\ Delivered /\ running_
    /\ parse_message_type(rx) = "error" /\ rx.complete

\* the read handler takes a frame of a known type that lacks a required field
MissingFieldStep ==
    /\ Delivered /\ rx # CloseMark /\ rx' = NoFrame
    /\ parse_message_type(rx) # "unknown" /\ ~rx.complete

\* C35: a frame of a recognised type that lacks a required field is answered by
\* nothing and ends the connection epoch: the I/O task leaves the read-loop for
\* disconnect() and posts no further read.
C35_MissingFieldEndsEpoch ==
    [][ MissingFieldStep =>
           /\ io_pc' = "disconnect" /\ ~read_pending'
           /\ io_out' = io_out ]_vars

\* the new state of the last pair the observer was given, Disconnected before any
LastNotified == IF obs = <<"", "">> THEN "Disconnected" ELSE obs[2]

\* C37: the pairs given to an observer installed before start() form a chain: each
\* pair's old state is the new state of the pair before it, the first one's is
\* Disconnected; and between a state exchange and its notification no other pair is
\* given, whatever stop() does meanwhile.
C37_NotificationsChain ==
    [][ /\ obs' # obs => obs'[1] = LastNotified /\ obs'[2] = state_'
        /\ io_pc' \in {"st_lock", "st_locked"} =>
              set_state_call'.old = LastNotified' /\ set_state_call'.new = state_' ]_vars

\* C37 witness: stop() waits for the I/O task, which has exchanged the state for
\* Disconnected and has yet to tell the observer
C37_StopWaitsForNotification ==
    /\ main_pc = "stop_join" /\ io_pc = "st_lock"
    /\ set_state_call = [old |-> "Registered", new |-> "Disconnected"]

\* the read handler takes a frame whose handler slot is empty
EmptySlotStep ==
    /\ Delivered /\ rx # CloseMark /\ rx' = NoFrame
    /\ SlotOf(parse_message_type(rx)) # "" /\ ~handlers[SlotOf(parse_message_type(rx))]

\* C38: an http_request, rtsp_request or udp_channel_setup dispatched while its handler
\* slot is empty starts no write and changes neither the connection state, the
\* assigned state nor the channels, and the read-loop goes on; a response or ack is
\* only ever started in the step that takes its request with the handler installed,
\* so the dropped request is not answered later.
C38_EmptySlotDrops ==
    [][ /\ EmptySlotStep =>
              /\ UNCHANGED <<io_out, io_pc, state_, obs, assigned_host_id_, assigned_ports_>>
              /\ UNCHANGED <<mgrVars, handlers, handler_mutex_, answered, last_setup>>
              /\ read_pending' = running_
        /\ (io_out' # io_out /\
            io_out'.type \in {"http_response", "rtsp_response", "udp_channel_ack"}) =>
              /\ Delivered /\ rx' = NoFrame
              /\ io_out'.type = AnswerType(parse_message_type(rx))
              /\ handlers[SlotOf(parse_message_type(rx))]
              /\ io_out'.type # "udp_channel_ack" => io_out'.id = rx.id ]_vars

\* C38 witness: an http_request is about to be dispatched after start() and before
\* tunnel::initialize() has installed the HTTP handler
C38_RequestBeforeTunnel ==
    /\ Delivered /\ parse_message_type(rx) = "http_request" /\ rx.complete
    /\ ~handlers.http /\ main_pc = "tunnel0" /\ state_ = "Registered"

\* C39: a udp_channel_setup answered from a record that already exists names the
\* local_port of a record whose forwarder task is still running; a record whose
\* forwarder has left run_relay is not reported as a working channel.
C39_ReportedChannelIsLive ==
    [][ (io_pc = "su_body" /\ io_pc' = "mgr_idle" /\ last_setup' = "existed"
         /\ mgr_running /\ main_pc = "up") =>
            \A t \in UdpChannelType :
                (io_out'.type = "udp_channel_ack"
                 /\ io_out'.channel = channel_type_string(t)
                 /\ io_out'.local_port # 0)
                    => fw_pc[t] # "exited" ]_vars

\* C40: the request written to the local server carries exactly one X-Forwarded-For
\* header and exactly one X-Starbeam-Client header, each with the ingress message's
\* client_addr as its value, also when the ingress headers have keys of those names.
C40_ClientHeadersOnce ==
    (fwd_sent # NothingSent) =>
        LET h == fwd_sent.headers
        IN \A name \in {"X-Forwarded-For", "X-Starbeam-Client"} :
              /\ Cardinality({ i \in 1..Len(h) : h[i].name = name }) = 1
              /\ \A i \in 1..Len(h) :
                     h[i].name = name => h[i].value = fwd_req.client_addr
====
